---- MODULE Spec2Model ----
(***************************************************************************)
(* Model of the weather-intelligence model registries:                     *)
(*   src/src/ml_models/arima_model.py    (ARIMAWeatherModel)               *)
(*   src/src/ml_models/xgboost_model.py  (XGBoostWeatherModel)             *)
(* Time is counted in minutes.  A training frame is abstracted to the      *)
(* facts the code reads from it (row count, number of 5-minute bins, last  *)
(* timestamp, which fits the numerical library accepts and their AIC).     *)
(***************************************************************************)
EXTENDS Integers, Sequences, FiniteSets, TLC

VARIABLES
    family,              \* which registry object this run exercises
    library,             \* its numerical library was imported (ARIMA / xgb is not None)
    strict_names,        \* the installed scikit-learn enforces feature names
    bundle_file,         \* content of the pickle file at the bundle path
    models,              \* ARIMAWeatherModel.models  {region: {parameter: entry}}
    model_params,        \* ARIMAWeatherModel.model_params {"region_parameter": order}
    last_training_time,  \* ARIMAWeatherModel.last_training_time
    prediction_horizon,  \* ARIMAWeatherModel.prediction_horizon (minutes)
    regression_models,   \* XGBoostWeatherModel.regression_models
    classification_model,\* XGBoostWeatherModel.classification_model
    scalers,             \* XGBoostWeatherModel.scalers
    label_encoders,      \* XGBoostWeatherModel.label_encoders
    feature_columns,     \* XGBoostWeatherModel.feature_columns
    xgb_last_training_time, \* XGBoostWeatherModel.last_training_time
    severe_weather_threshold, \* XGBoostWeatherModel.severe_weather_threshold (tenths)
    ret,                 \* the last call and what it returned
    saved,               \* the instance as it was when save_models last wrote the file
    nops,                \* number of state-changing calls made so far
    arg,                 \* input of the pure function under check
    result,              \* its output
    consumer,            \* WeatherEventHubConsumer and its partitions' checkpoints
    platform             \* WeatherIntelligencePlatform and the task running start()

serviceVars == <<consumer, platform>>
envVars == <<family, library, strict_names, serviceVars>>
arimaVars == <<models, model_params, last_training_time, prediction_horizon>>
xgbVars == <<regression_models, classification_model, scalers, label_encoders,
             feature_columns, xgb_last_training_time, severe_weather_threshold>>
pureVars == <<arg, result>>
vars == <<envVars, bundle_file, arimaVars, xgbVars, ret, saved, nops, pureVars>>

\* Python's None, and a value that is not None
None == <<>>
Some(x) == <<x>>
\* WeatherEventHubConsumer.__init__, with no event processed on any partition
Partitions == {"0", "1"}
ConsumerNew ==
    [events_processed |-> 0, events_failed |-> 0,
     unchecked |-> [p \in Partitions |-> 0], checkpoint_errors |-> 0]

\* WeatherIntelligencePlatform.__init__, before start() is called
Tasks == {"start_data_collection", "start_event_processing",
          "run_performance_monitoring"}
PlatformNew ==
    [pc |-> "created", running |-> FALSE, kusto_client |-> FALSE,
     connections |-> "none", tasks |-> [t \in Tasks |-> "none"],
     must_cancel |-> FALSE, start_exit |-> "none", shutdowns |-> 0, signals |-> 0]

ServicesIdle == consumer = ConsumerNew /\ platform = PlatformNew

NoCall == [op |-> "none"]

\* ---- bounds of the model ------------------------------------------------
MaxOps == 4
MaxSteps == 2

\* ---- program constants --------------------------------------------------
MinArimaRows == 50
PLimit == 4
DLimit == 3
QLimit == 4
BinMinutes == 5
DefaultOrder == <<2, 1, 2>>

Regions == {"north", "south"}
Parameters == {"temperature", "humidity"}
Keys == Regions \X Parameters
\* the (region, parameter) pairs the caller trains
TrainKeys == {<<"north", "temperature">>, <<"north", "humidity">>,
              <<"south", "temperature">>}

Min2(a, b) == IF a < b THEN a ELSE b

\* ---- the numerical library on a series ------------------------------------
\* A series is described by d: ARIMA(series, order).fit() raises for some
\* orders (d.fail) and otherwise yields an AIC that depends on the order.
FitFails(d, o) ==
    \/ d.fail = "all"
    \/ d.fail = "high" /\ o[1] + o[3] >= 3
    \/ d.fail = "nodiff" /\ o[2] = 0

Aic(d, o) == d.base + ((d.a * o[1] + d.b * o[2] + d.c * o[3] + d.k) % d.m)

\* The fitted model object: which series and which order it was fitted with.
Fit(d, o) == [data |-> d.id, order |-> o]

\* fitted_model.forecast / get_forecast(...).conf_int(): deterministic in the
\* fitted model and the step; the interval widens with the step.
ForecastValue(fm, k) == 10 * fm.data + fm.order[1] + k

\* get_forecast(steps).conf_int(): the row of step k, <<lower, upper>>
ConfInt(fm, k) == <<ForecastValue(fm, k) - k, ForecastValue(fm, k) + k>>

\* the last column of the interval frame
ConfIntLastColumn(fm, k) == ConfInt(fm, k)[2]

\* conf_int.iloc[:, 0] and conf_int.iloc[:, 1]
ForecastLower(fm, k) == ConfInt(fm, k)[1]
ForecastUpper(fm, k) == ConfInt(fm, k)[2]

\* ---- auto_arima_params ----------------------------------------------------
GridSize == PLimit * DLimit * QLimit
\* the i-th order met by  for p: for d: for q:
GridOrder(i) == << i \div (DLimit * QLimit), (i \div QLimit) % DLimit, i % QLimit >>
Grid == (0 .. PLimit - 1) \X (0 .. DLimit - 1) \X (0 .. QLimit - 1)

\* a comparison that lets a later order of equal AIC replace the best one
AicImprovesNonStrict(aic, best) == best.inf \/ aic <= best.v

\* fitted_model.aic < best_aic, best_aic starting at float('inf')
AicImproves(aic, best) == best.inf \/ aic < best.v

RECURSIVE GridSearch(_, _, _, _, _)
GridSearch(lib, d, i, best_aic, best_params) ==
    IF i >= GridSize THEN best_params
    ELSE LET o == GridOrder(i) IN
         IF ~lib \/ FitFails(d, o)
         THEN GridSearch(lib, d, i + 1, best_aic, best_params)
         ELSE IF AicImproves(Aic(d, o), best_aic)
              THEN GridSearch(lib, d, i + 1, [inf |-> FALSE, v |-> Aic(d, o)], o)
              ELSE GridSearch(lib, d, i + 1, best_aic, best_params)

auto_arima_params(lib, d) ==
    IF d.bins < MinArimaRows THEN DefaultOrder
    ELSE GridSearch(lib, d, 0, [inf |-> TRUE, v |-> 0], DefaultOrder)

\* ---- dictionaries -----------------------------------------------------------
EmptyDict == [x \in {} |-> 0]

\* an assignment that starts the region's mapping anew each time
ReplaceRegion(ms, region, parameter, entry) ==
    [r \in DOMAIN ms \cup {region} |->
        IF r = region THEN [p \in {parameter} |-> entry] ELSE ms[r]]

\* self.models[region][parameter] = entry, creating self.models[region] = {}
\* first when the region is new
SetEntry(ms, region, parameter, entry) ==
    LET old == IF region \in DOMAIN ms THEN ms[region] ELSE EmptyDict IN
    [r \in DOMAIN ms \cup {region} |->
        IF r = region
        THEN [p \in DOMAIN old \cup {parameter} |->
                 IF p = parameter THEN entry ELSE old[p]]
        ELSE ms[r]]

\* d[key] = value
SetItem(d, key, value) ==
    [k \in DOMAIN d \cup {key} |-> IF k = key THEN value ELSE d[k]]

\* region in self.models and parameter in self.models[region]
HasModel(ms, region, parameter) ==
    region \in DOMAIN ms /\ parameter \in DOMAIN ms[region]

\* f"{region}_{parameter}"
ParamKey(region, parameter) == <<region, "_", parameter>>

\* ---- ARIMAWeatherModel.train_model ------------------------------------------
\* series.index[-1] after resample('5min'): the start of the last reading's bin
LastIndex(d) == (d.last_ts \div BinMinutes) * BinMinutes

ArimaEntry(d, o) ==
    [model |-> Fit(d, o),
     last_values |-> d.id,
     last_index |-> LastIndex(d),
     params |-> o,
     aic |-> Aic(d, o),
     training_samples |-> d.bins]

\* The state after train_model and its return value.
train_model(lib, ms, mp, d, region, parameter) ==
    IF d.rows < MinArimaRows
    THEN [models |-> ms, model_params |-> mp, value |-> FALSE]
    ELSE IF ~d.hascol
    THEN \* region_data[parameter] raises KeyError, caught
         [models |-> ms, model_params |-> mp, value |-> FALSE]
    ELSE LET optimal_params == auto_arima_params(lib, d)
             mp2 == SetItem(mp, ParamKey(region, parameter), optimal_params)
         IN  IF ~lib
             THEN [models |-> ms, model_params |-> mp2, value |-> FALSE]
             ELSE IF FitFails(d, optimal_params)
             THEN \* model.fit() raises, caught
                  [models |-> ms, model_params |-> mp2, value |-> FALSE]
             ELSE [models |-> SetEntry(ms, region, parameter,
                                       ArimaEntry(d, optimal_params)),
                   model_params |-> mp2, value |-> TRUE]

\* ---- the training calls, statement by statement -----------------------------
\* if region not in self.models: self.models[region] = {}, without its test
ResetRegion(ms, region) ==
    [r \in DOMAIN ms \cup {region} |-> IF r = region THEN EmptyDict ELSE ms[r]]

\* if region not in self.models: self.models[region] = {}
CreateRegion(ms, region) ==
    IF region \in DOMAIN ms THEN ms
    ELSE [r \in DOMAIN ms \cup {region} |-> IF r = region THEN EmptyDict ELSE ms[r]]

\* self.models[region][parameter] = {...}: one subscript store of a finished dict
StoreEntry(ms, region, parameter, entry) ==
    [ms EXCEPT ![region] =
        [p \in DOMAIN ms[region] \cup {parameter} |->
            IF p = parameter THEN entry ELSE ms[region][p]]]

\* what a reader finds under the key: self.models[region][parameter], or
\* nothing when the region or the parameter is absent
Lookup(ms, region, parameter) ==
    IF HasModel(ms, region, parameter) THEN Some(ms[region][parameter]) ELSE None

\* ---- ARIMAWeatherModel.predict ----------------------------------------------
\* Timestamp.isoformat(): hours and minutes of the day-less clock, and back
IsoFormat(t) == <<t \div 60, t % 60>>
IsoMinutes(s) == 60 * s[1] + s[2]

\* a range that starts at the last reading itself
PredictionTimestampsFromZero(last_timestamp, steps) ==
    [i \in 1 .. steps |-> last_timestamp + BinMinutes * (i - 1)]

\* [last_timestamp + timedelta(minutes=5*i) for i in range(1, steps+1)]
PredictionTimestamps(last_timestamp, steps) ==
    [i \in 1 .. steps |-> last_timestamp + BinMinutes * i]

\* an answer for a missing model that carries no error field
NotFoundSilent ==
    [predictions |-> <<>>, confidence_intervals |-> <<>>]

\* {'predictions': [], 'confidence_intervals': [], 'error': 'Model not found'}
NotFound ==
    [predictions |-> <<>>, confidence_intervals |-> <<>>, error |-> "Model not found"]

predict(ms, horizon, region, parameter, steps_arg) ==
    LET steps == IF steps_arg = None THEN horizon \div BinMinutes ELSE steps_arg[1] IN
    IF ~HasModel(ms, region, parameter)
    THEN NotFound
    ELSE LET model_info == ms[region][parameter]
             fitted_model == model_info.model
             ts == PredictionTimestamps(model_info.last_index, steps)
         IN  [predictions |-> [k \in 1 .. steps |-> ForecastValue(fitted_model, k)],
              timestamps |-> [k \in 1 .. steps |-> IsoFormat(ts[k])],
              confidence_intervals |->
                  [lower |-> [k \in 1 .. steps |-> ForecastLower(fitted_model, k)],
                   upper |-> [k \in 1 .. steps |-> ForecastUpper(fitted_model, k)]],
              model_info |-> [params |-> model_info.params,
                              aic |-> model_info.aic,
                              training_samples |-> model_info.training_samples]]

\* ---- ARIMAWeatherModel.batch_predict_all_regions / evaluate_model ------------
\* parameters = ['temperature', 'humidity', 'pressure', 'wind_speed']
DefaultBatchParameters == <<"temperature", "humidity", "pressure", "wind_speed">>

\* the nested mapping region -> parameter -> prediction
batch_predict_all_regions(ms, horizon, parameters_arg) ==
    LET parameters == IF parameters_arg = None THEN DefaultBatchParameters
                      ELSE parameters_arg[1]
    IN  [region \in DOMAIN ms |->
            [parameter \in {parameters[i] : i \in 1 .. Len(parameters)}
                               \cap DOMAIN ms[region] |->
                predict(ms, horizon, region, parameter, None)]]

\* predicted_values[:min_len], actual_values[:min_len] when the lengths differ
Truncate(predicted_values, actual_values) ==
    LET min_len == Min2(Len(predicted_values), Len(actual_values)) IN
    [predicted |-> SubSeq(predicted_values, 1, min_len),
     actual |-> SubSeq(actual_values, 1, min_len)]

\* test: whether the frame has the parameter's column, and the actual values
\* of the region.  The metrics are kept as the values they are computed from:
\* mae, mse, rmse and mape from the differences, baseline_mae from the
\* differences with the first actual value.
evaluate_model(ms, horizon, test, region, parameter) ==
    IF ~test.hascol
    THEN [error |-> "KeyError"]
    ELSE LET prediction_result ==
                 predict(ms, horizon, region, parameter, Some(Len(test.actual)))
             cut == Truncate(prediction_result.predictions, test.actual)
         IN  IF Len(cut.actual) = 0
             THEN \* actual_values[0] raises IndexError, caught
                  [error |-> "IndexError"]
             ELSE [mae |-> [k \in 1 .. Len(cut.actual) |->
                               cut.actual[k] - cut.predicted[k]],
                   baseline_mae |-> [k \in 1 .. Len(cut.actual) |->
                                        cut.actual[k] - cut.actual[1]]]

\* ---- pickle ---------------------------------------------------------------------
\* pickle.dump of a dict: its items in insertion order; pickle.load: the dict
\* with those items.  A file is missing, unreadable, or holds such items.
NoFile == [kind |-> "missing", items |-> <<>>]
Garbage == [kind |-> "garbage", items |-> <<>>]
Dumps(fields, dict) ==
    [kind |-> "pickle",
     items |-> [i \in 1 .. Len(fields) |-> <<fields[i], dict[fields[i]]>>]]
Loads(file) ==
    [k \in {file.items[i][1] : i \in 1 .. Len(file.items)} |->
        LET i == CHOOSE j \in 1 .. Len(file.items) : file.items[j][1] = k
        IN  file.items[i][2]]

\* dict.get(key) with its default
Get(dict, key, default) == IF key \in DOMAIN dict THEN dict[key] ELSE default

\* the same file without the item called name (a bundle written without it)
DropField(file, name) ==
    LET Keep(item) == item[1] # name
    IN  [kind |-> file.kind, items |-> SelectSeq(file.items, Keep)]

\* ---- ARIMAWeatherModel.save_models / load_models -----------------------------
ArimaBundleFields == <<"models", "model_params", "last_training_time", "config">>

ArimaBundle(ms, mp, horizon, now) ==
    Dumps(ArimaBundleFields,
          [models |-> ms,
           model_params |-> mp,
           last_training_time |-> IsoFormat(now),
           config |-> [default_order |-> DefaultOrder,
                       prediction_horizon |-> horizon]])

\* The file after save_models and its return value.  io is what the file
\* system does: "ok", "mkdir" (os.makedirs or open raises, file untouched) or
\* "dump" (the file was opened for writing, hence truncated, and dump raises).
arima_save_models(ms, mp, horizon, now, file, io) ==
    IF io = "mkdir" THEN [file |-> file, value |-> FALSE]
    ELSE IF io = "dump" THEN [file |-> Garbage, value |-> FALSE]
    ELSE [file |-> ArimaBundle(ms, mp, horizon, now), value |-> TRUE]

\* pickle.load needs the classes of the pickled objects: a bundle holding a
\* fitted model cannot be unpickled without the forecasting library.
ArimaUnpickles(lib, file) ==
    /\ file.kind = "pickle"
    /\ \/ lib
       \/ \A i \in 1 .. Len(file.items) :
              file.items[i][1] = "models" => file.items[i][2] = EmptyDict

\* The instance after load_models and its return value.
arima_load_models(lib, ms, mp, ltt, file) ==
    IF ~ArimaUnpickles(lib, file)
    THEN [models |-> ms, model_params |-> mp, last_training_time |-> ltt,
          value |-> FALSE]
    ELSE LET model_data == Loads(file) IN
         IF "models" \notin DOMAIN model_data
         THEN [models |-> ms, model_params |-> mp, last_training_time |-> ltt,
               value |-> FALSE]
         ELSE IF "model_params" \notin DOMAIN model_data
         THEN [models |-> model_data["models"], model_params |-> mp,
               last_training_time |-> ltt, value |-> FALSE]
         ELSE [models |-> model_data["models"],
               model_params |-> model_data["model_params"],
               last_training_time |->
                   Get(model_data, "last_training_time", None),
               value |-> TRUE]

\* ===========================================================================
\* XGBoostWeatherModel
\* ===========================================================================
\* the ARIMA threshold applied to the regression frames
ArimaRowsForXgb == MinArimaRows

MinXgbRows == 100
TestPercent == 20

\* The columns of a featured frame, in frame order ("hour" and
\* "temperature_lag_1" stand for the engineered feature columns).
FrameColumns ==
    <<"timestamp", "region", "temperature", "humidity", "pressure", "wind_speed",
      "visibility", "weather_condition", "hour", "temperature_lag_1",
      "severe_weather">>
RawTargets == {"temperature", "humidity", "pressure", "wind_speed", "visibility"}

InSeq(x, seq) == \E i \in 1 .. Len(seq) : seq[i] = x

\* ---- prepare_training_data ------------------------------------------------
\* feature_cols = [col for col in df.columns if col not in exclude_cols]
FeatureCols(columns, target_column) ==
    LET exclude_cols ==
            {"timestamp", "region", "weather_condition", target_column}
            \cup (IF target_column = "severe_weather" THEN RawTargets ELSE {})
        IsFeature(col) == col \notin exclude_cols
    IN  SelectSeq(columns, IsFeature)

\* df[target_column] raises KeyError when the frame has no such column; this
\* happens before self.feature_columns is assigned.
prepare_training_data(fc, columns, target_column) ==
    IF ~InSeq(target_column, columns)
    THEN [raised |-> TRUE, feature_columns |-> fc]
    ELSE [raised |-> FALSE, feature_columns |-> FeatureCols(columns, target_column)]

\* ---- train_test_split -----------------------------------------------------
\* n_test = ceil(test_size * n), n_train = n - n_test
TestSize(n) == (n * TestPercent + 99) \div 100
TrainSize(n) == n - TestSize(n)

\* sklearn's _approximate_mode for two classes: n_draws spread over the
\* classes in proportion, the odd one going to the larger remainder and, on a
\* tie, to the class the seeded generator picks (tie).  Returns the draws of
\* class 1 out of counts <<c0, c1>>.
ApproximateMode(c0, c1, n_draws, tie) ==
    LET total == c0 + c1
        f0 == (c0 * n_draws) \div total
        f1 == (c1 * n_draws) \div total
        r0 == (c0 * n_draws) % total
        r1 == (c1 * n_draws) % total
        need_to_add == n_draws - f0 - f1
    IN  IF need_to_add = 0 THEN f1
        ELSE IF r1 > r0 THEN f1 + 1
        ELSE IF r1 < r0 THEN f1
        ELSE IF tie = "pos" THEN f1 + 1 ELSE f1

\* a / b as numpy computes it on integer counts: a reduced fraction
\* <<numerator, denominator>>, <<1, 0>> being inf
RECURSIVE Gcd(_, _)
Gcd(a, b) == IF b = 0 THEN a ELSE Gcd(b, a % b)
Divide(a, b) ==
    IF b = 0 THEN <<1, 0>>
    ELSE <<a \div Gcd(a, b), b \div Gcd(a, b)>>

\* ---- train_regression_model -----------------------------------------------
\* StandardScaler().fit_transform(X_train): remembers the training columns
\* (feature_names_in_, n_features_in_) and the statistics of the rows fitted.
Scaler(d, cols, n_train) == [data |-> d.id, cols |-> cols, rows |-> n_train]

RegressionEntry(d, cols) ==
    [model |-> [data |-> d.id, n_features |-> Len(cols)],
     scaler |-> Scaler(d, cols, TrainSize(d.rows)),
     best_params |-> d.id,
     mae |-> d.id,
     mse |-> d.id,
     feature_importance |-> cols,
     training_samples |-> TrainSize(d.rows)]

\* The state after train_regression_model and its return value.
train_regression_model(lib, rm, fc, d, region, parameter) ==
    IF ~lib
    THEN [regression_models |-> rm, feature_columns |-> fc, value |-> FALSE]
    ELSE IF d.rows < MinXgbRows
    THEN [regression_models |-> rm, feature_columns |-> fc, value |-> FALSE]
    ELSE LET prep == prepare_training_data(fc, d.columns, parameter) IN
         IF prep.raised
         THEN [regression_models |-> rm, feature_columns |-> prep.feature_columns,
               value |-> FALSE]
         ELSE IF d.fitfail
         THEN \* the split, the scaler or grid_search.fit raises, caught
              [regression_models |-> rm, feature_columns |-> prep.feature_columns,
               value |-> FALSE]
         ELSE [regression_models |->
                   SetEntry(rm, region, parameter,
                            RegressionEntry(d, prep.feature_columns)),
               feature_columns |-> prep.feature_columns,
               value |-> TRUE]

\* ---- train_classification_model ---------------------------------------------
\* y_train of the stratified split of d.rows labels, d.pos of them 1:
\* <<number of 0 labels, number of 1 labels>>
TrainLabels(d) ==
    LET pos == ApproximateMode(d.rows - d.pos, d.pos, TrainSize(d.rows), d.tie)
    IN  <<TrainSize(d.rows) - pos, pos>>

\* the labels of the whole frame
FullLabels(d) == <<d.rows - d.pos, d.pos>>

\* y_test: what the training split left
TestLabels(d) ==
    <<d.rows - d.pos - TrainLabels(d)[1], d.pos - TrainLabels(d)[2]>>

\* the ratio counted on the whole frame instead
ScalePosWeightOfFrame(d) == Divide(FullLabels(d)[1], FullLabels(d)[2])

\* scale_pos_weight = (y_train == 0).sum() / (y_train == 1).sum()
ScalePosWeight(d) == Divide(TrainLabels(d)[1], TrainLabels(d)[2])

\* train_test_split(..., stratify=y) raises when a class has a single member
StratifyRaises(d) == d.pos = 1 \/ d.rows - d.pos = 1

\* classification_report(y_test, y_pred, output_dict=True) has a '1' entry
\* when label 1 occurs in y_test or in y_pred
ReportHasPositive(d) == TestLabels(d)[2] > 0 \/ d.predicts_pos

ClassificationEntry(d, cols) ==
    LET y_train == TrainLabels(d)
        scale_pos_weight == ScalePosWeight(d)
    IN  [model |-> [data |-> d.id, n_features |-> Len(cols),
                    scale_pos_weight |-> scale_pos_weight,
                    fitted_labels |-> y_train],
         scaler |-> Scaler(d, cols, TrainSize(d.rows)),
         classification_report |-> [accuracy |-> d.id,
                                    positive |-> ReportHasPositive(d)],
         feature_importance |-> cols,
         training_samples |-> TrainSize(d.rows),
         scale_pos_weight |-> scale_pos_weight]

\* The state after train_classification_model and its return value.
train_classification_model(lib, cm, fc, d) ==
    IF ~lib
    THEN [classification_model |-> cm, feature_columns |-> fc, value |-> FALSE]
    ELSE LET prep == prepare_training_data(fc, d.columns, "severe_weather") IN
         IF prep.raised
         THEN [classification_model |-> cm,
               feature_columns |-> prep.feature_columns, value |-> FALSE]
         ELSE IF d.rows < MinXgbRows
         THEN [classification_model |-> cm,
               feature_columns |-> prep.feature_columns, value |-> FALSE]
         ELSE IF StratifyRaises(d) \/ d.fitfail
         THEN \* the split or xgb_classifier.fit raises, caught
              [classification_model |-> cm,
               feature_columns |-> prep.feature_columns, value |-> FALSE]
         ELSE [classification_model |->
                   Some(ClassificationEntry(d, prep.feature_columns)),
               feature_columns |-> prep.feature_columns,
               \* class_report['1'] in the log line after the model is stored
               value |-> ReportHasPositive(d)]

\* ---- predict_parameter / predict_severe_weather -----------------------------
\* features[self.feature_columns]: the frame's values of those columns, in
\* that order (KeyError when the frame lacks one).
SelectColumns(features, cols) == [i \in 1 .. Len(cols) |-> features.values[cols[i]]]
LacksColumn(features, cols) ==
    \E i \in 1 .. Len(cols) : cols[i] \notin DOMAIN features.values

\* scaler.transform(X) raises when X has another number of columns than the
\* scaler was fitted on and, in a scikit-learn that enforces feature names
\* (strict), when the column names differ.
TransformRaises(strict, scaler, cols) ==
    \/ Len(cols) # Len(scaler.cols)
    \/ strict /\ cols # scaler.cols

\* model.predict(X_scaled): deterministic in the trees, the scaler and the
\* values handed over
ModelOutput(model, scaler, X) == [model |-> model.data, scaler |-> scaler.data, X |-> X]

\* model.predict_proba(X_scaled)[:, 1], in tenths
ProbabilityTenths(model, X) == (3 * model.data + Len(X) + X[1]) % 11

predict_parameter(strict, rm, fc, region, parameter, features) ==
    IF ~HasModel(rm, region, parameter)
    THEN [error |-> "No trained model"]
    ELSE LET model_info == rm[region][parameter] IN
         IF LacksColumn(features, fc) \/ TransformRaises(strict, model_info.scaler, fc)
         THEN [error |-> "raised"]
         ELSE [predictions |->
                   ModelOutput(model_info.model, model_info.scaler,
                               SelectColumns(features, fc)),
               model_info |-> [mae |-> model_info.mae,
                               mse |-> model_info.mse,
                               training_samples |-> model_info.training_samples,
                               best_params |-> model_info.best_params]]

predict_severe_weather(strict, cm, fc, threshold, features) ==
    IF cm = None
    THEN [error |-> "No trained classification model"]
    ELSE LET info == cm[1] IN
         IF LacksColumn(features, fc) \/ TransformRaises(strict, info.scaler, fc)
         THEN [error |-> "raised"]
         ELSE LET X == SelectColumns(features, fc)
                  probability == ProbabilityTenths(info.model, X)
              IN  [predictions |-> ModelOutput(info.model, info.scaler, X),
                   probabilities |-> probability,
                   alerts |-> probability > threshold,
                   alert_threshold |-> threshold,
                   model_info |->
                       [accuracy |-> info.classification_report.accuracy,
                        training_samples |-> info.training_samples]]

\* ---- create_features (its effect on the instance) -------------------------
\* self.label_encoders['region'] = LabelEncoder fitted on the frame's regions
create_features_encoders(le, regions) == SetItem(le, "region", regions)

\* create_features has no try: `LabelEncoder() if LabelEncoder else None` raises
\* NameError when the failed import left the name LabelEncoder unbound
create_features_call(le, encoder_bound, regions) ==
    IF ~encoder_bound
    THEN [label_encoders |-> le, raised |-> TRUE, value |-> "NameError"]
    ELSE [label_encoders |-> create_features_encoders(le, regions),
          raised |-> FALSE, value |-> "DataFrame"]

\* ---- XGBoostWeatherModel.save_models / load_models ------------------------
XgbBundleFields ==
    <<"regression_models", "classification_model", "scalers", "label_encoders",
      "feature_columns", "last_training_time", "config">>

XgbInstance(rm, cm, sc, le, fc, ltt) ==
    [regression_models |-> rm, classification_model |-> cm, scalers |-> sc,
     label_encoders |-> le, feature_columns |-> fc, last_training_time |-> ltt]

XgbBundle(inst, threshold, now) ==
    Dumps(XgbBundleFields,
          [regression_models |-> inst.regression_models,
           classification_model |-> inst.classification_model,
           scalers |-> inst.scalers,
           label_encoders |-> inst.label_encoders,
           feature_columns |-> inst.feature_columns,
           last_training_time |-> IsoFormat(now),
           config |-> [severe_weather_threshold |-> threshold]])

xgb_save_models(inst, threshold, now, old_file, io) ==
    IF io = "mkdir" THEN [file |-> old_file, value |-> FALSE]
    ELSE IF io = "dump" THEN [file |-> Garbage, value |-> FALSE]
    ELSE [file |-> XgbBundle(inst, threshold, now), value |-> TRUE]

\* unpickling trees, scalers or encoders needs their libraries
XgbUnpickles(l, f) ==
    /\ f.kind = "pickle"
    /\ \/ l
       \/ \A i \in 1 .. Len(f.items) :
              /\ f.items[i][1] \in {"regression_models", "scalers", "label_encoders"}
                     => f.items[i][2] = EmptyDict
              /\ f.items[i][1] = "classification_model" => f.items[i][2] = None

\* The instance after load_models and its return value.
xgb_load_models(l, inst, f) ==
    IF ~XgbUnpickles(l, f)
    THEN [inst |-> inst, value |-> FALSE]
    ELSE LET model_data == Loads(f) IN
         IF "regression_models" \notin DOMAIN model_data
         THEN [inst |-> inst, value |-> FALSE]
         ELSE IF "classification_model" \notin DOMAIN model_data
         THEN [inst |-> [inst EXCEPT !.regression_models =
                                         model_data["regression_models"]],
               value |-> FALSE]
         ELSE [inst |-> XgbInstance(model_data["regression_models"],
                                    model_data["classification_model"],
                                    Get(model_data, "scalers", EmptyDict),
                                    Get(model_data, "label_encoders", EmptyDict),
                                    Get(model_data, "feature_columns", <<>>),
                                    Get(model_data, "last_training_time", None)),
               value |-> TRUE]

\* ---- _create_severe_weather_target -----------------------------------------
\* Readings carry temperature, wind speed and visibility in tenths of their
\* unit; the thresholds are the code's -5, 40, 20 and 2 in tenths.
TemperatureLow == -50
TemperatureHigh == 400
WindSpeedHigh == 200
VisibilityLow == 20
severe_weather_types == {"Thunderstorm", "Tornado", "Hurricane", "Blizzard", "Hail"}

\* severe_conditions |= condition
OrInto(severe_conditions, condition) ==
    IF severe_conditions = 1 \/ condition THEN 1 ELSE 0

HighWindAtThreshold(row) == row["wind_speed"] >= WindSpeedHigh

HighWind(row) == row["wind_speed"] > WindSpeedHigh

\* row: the columns of the frame the reading has, with their values
create_severe_weather_target(row) ==
    LET s0 == 0
        s1 == IF "temperature" \in DOMAIN row
              THEN OrInto(s0, row["temperature"] < TemperatureLow
                              \/ row["temperature"] > TemperatureHigh)
              ELSE s0
        s2 == IF "wind_speed" \in DOMAIN row THEN OrInto(s1, HighWind(row)) ELSE s1
        s3 == IF "visibility" \in DOMAIN row
              THEN OrInto(s2, row["visibility"] < VisibilityLow)
              ELSE s2
        s4 == IF "weather_condition" \in DOMAIN row
              THEN OrInto(s3, row["weather_condition"] \in severe_weather_types)
              ELSE s3
    IN  s4

\* ---- create_features: the per-region features of one numeric column ---------
\* A frame is a sequence of rows; the row at position i carries index label i.
\* NaN is None, a mean is <<sum, count>>, a sample standard deviation is its
\* square as <<count * sum of squares - sum^2, count * (count - 1)>>.
MaxRows == 5
lag_periods == {1, 3, 6, 12, 24}
rolling_windows == {3, 6, 12, 24}
RateWindow == 3

RegionRank(region) == IF region = "north" THEN 1 ELSE 2

\* row i comes before row j in df.sort_values(['region', 'timestamp']), a
\* stable sort
Before(frame, i, j) ==
    \/ RegionRank(frame[i].region) < RegionRank(frame[j].region)
    \/ /\ frame[i].region = frame[j].region
       /\ \/ frame[i].timestamp < frame[j].timestamp
          \/ frame[i].timestamp = frame[j].timestamp /\ i < j

\* the index labels in sorted order
sort_values(frame) ==
    [k \in 1 .. Len(frame) |->
        CHOOSE i \in 1 .. Len(frame) :
            Cardinality({j \in 1 .. Len(frame) : Before(frame, j, i)}) = k - 1]

\* a shift or a window that runs over the whole sorted frame
AllRows(frame, order, region) == order

\* df.groupby('region'): the labels of one region, in the frame's order
GroupRows(frame, order, region) ==
    LET InRegion(label) == frame[label].region = region
    IN  SelectSeq(order, InRegion)

RECURSIVE SeqSum(_)
SeqSum(values) ==
    IF values = <<>> THEN 0 ELSE Head(values) + SeqSum(Tail(values))

Position(group, label) == CHOOSE k \in 1 .. Len(group) : group[k] = label

\* .shift(lag) within the group
Shift(frame, group, k, lag) ==
    IF k > lag THEN Some(frame[group[k - lag]].pressure) ELSE None

\* the last `window` values of the group up to position k
WindowValues(series, k, window) ==
    SubSeq(series, IF k > window THEN k - window + 1 ELSE 1, k)

NotNaN(values) ==
    LET Valid(v) == v # None IN SelectSeq(values, Valid)

\* .rolling(window, min_periods).mean() at position k
RollingMean(series, k, window, min_periods) ==
    LET valid == NotNaN(WindowValues(series, k, window))
        numbers == [i \in 1 .. Len(valid) |-> valid[i][1]]
    IN  IF Len(valid) < min_periods THEN None
        ELSE <<SeqSum(numbers), Len(valid)>>

\* .rolling(window, min_periods=1).std() at position k
RollingStd(series, k, window) ==
    LET valid == NotNaN(WindowValues(series, k, window))
        numbers == [i \in 1 .. Len(valid) |-> valid[i][1]]
        squares == [i \in 1 .. Len(valid) |-> valid[i][1] * valid[i][1]]
        n == Len(valid)
    IN  IF n < 2 THEN None
        ELSE <<n * SeqSum(squares) - SeqSum(numbers) * SeqSum(numbers), n * (n - 1)>>

\* .diff() within the group
Diff(frame, group, k) ==
    IF k > 1 THEN Some(frame[group[k]].pressure - frame[group[k - 1]].pressure)
    ELSE None

\* the feature columns of the row with this index label
RowFeatures(frame, order, label) ==
    LET group == GroupRows(frame, order, frame[label].region)
        k == Position(group, label)
        pressure == [j \in 1 .. Len(group) |-> Some(frame[group[j]].pressure)]
        pressure_change == [j \in 1 .. Len(group) |-> Diff(frame, group, j)]
    IN  [pressure_lag |-> [lag \in lag_periods |-> Shift(frame, group, k, lag)],
         pressure_ma |-> [window \in rolling_windows |->
                              RollingMean(pressure, k, window, 1)],
         pressure_std |-> [window \in rolling_windows |->
                               RollingStd(pressure, k, window)],
         pressure_change |-> pressure_change[k],
         pressure_change_rate |->
             RollingMean(pressure_change, k, RateWindow, RateWindow)]

\* the returned frame: the rows in sorted order, each with its label, its raw
\* values and the features assigned to its label
create_features(frame) ==
    LET order == sort_values(frame)
    IN  [k \in 1 .. Len(frame) |->
            [index |-> order[k], raw |-> frame[order[k]],
             features |-> RowFeatures(frame, order, order[k])]]

\* ---- WeatherKustoClient.ingest_weather_data ----------------------------------
\* A record is the mapping of the fields it has.  Readings are in tenths of
\* their unit.  A score is the double <<t, e>>: t tenths, e > 0 when the double
\* lies just above that decimal, e < 0 when just below, 0 when it is the
\* double the literal denotes.
Zero == <<0, 0>>

\* score += x in IEEE double arithmetic, for the sums the function can form:
\* 0.2 + 0.1 is 0.30000000000000004 and 0.7 + 0.1 is 0.7999999999999999
FloatAdd(score, x) ==
    IF score = <<2, 0>> /\ x = 1 THEN <<3, 1>>
    ELSE IF score = <<7, 0>> /\ x = 1 THEN <<8, 0 - 1>>
    ELSE <<score[1] + x, score[2]>>

\* score >= tenths / 10
AtLeast(score, tenths) ==
    score[1] > tenths \/ (score[1] = tenths /\ score[2] >= 0)

\* weather_record.get(field, default)
GetField(weather_record, field, default) ==
    IF field \in DOMAIN weather_record THEN weather_record[field] ELSE default

calculate_severity_score(weather_record) ==
    LET temp == GetField(weather_record, "temperature", 200)
        wind == GetField(weather_record, "wind_speed", 0)
        visibility == GetField(weather_record, "visibility", 100)
        s1 == IF temp < 0 \/ temp > 350 THEN FloatAdd(Zero, 3) ELSE Zero
        s2 == IF wind > 200 THEN FloatAdd(s1, 4)
              ELSE IF wind > 150 THEN FloatAdd(s1, 2)
              ELSE s1
        s3 == IF visibility < 20 THEN FloatAdd(s2, 3)
              ELSE IF visibility < 50 THEN FloatAdd(s2, 1)
              ELSE s2
    IN  \* min(score, 1.0)
        IF AtLeast(s3, 10) THEN <<10, 0>> ELSE s3

determine_alert_level(severity_score) ==
    IF AtLeast(severity_score, 8) THEN "critical"
    ELSE IF AtLeast(severity_score, 6) THEN "high"
    ELSE IF AtLeast(severity_score, 3) THEN "medium"
    ELSE "low"

\* record[field] = value
WithField(record, field, value) ==
    [f \in DOMAIN record \cup {field} |-> IF f = field THEN value ELSE record[f]]

\* the body of the loop over weather_data
StampRecord(record, current_time) ==
    LET r1 == WithField(record, "ingestion_time", current_time)
        r2 == IF "severity_score" \notin DOMAIN r1
              THEN WithField(r1, "severity_score", calculate_severity_score(r1))
              ELSE r1
        r3 == IF "alert_level" \notin DOMAIN r2
              THEN WithField(r2, "alert_level",
                             determine_alert_level(r2["severity_score"]))
              ELSE r2
    IN  r3

\* the return value and the records handed to ingest_from_stream
ingest_weather_data(ingest_client, stream_fails, weather_data, current_time) ==
    IF ~ingest_client
    THEN [value |-> FALSE, ingested |-> <<>>]
    ELSE LET records == [i \in 1 .. Len(weather_data) |->
                            StampRecord(weather_data[i], current_time)]
         IN  IF stream_fails
             THEN [value |-> FALSE, ingested |-> <<>>]
             ELSE [value |-> TRUE, ingested |-> records]

\* ---- WeatherReading.to_json and the values handed to ingest_weather_data ------
\* A Python value that is a dict with these items, or a str with this text
PyDict(items) == [type |-> "dict", items |-> items]
PyStr(text) == [type |-> "str", text |-> text]

\* json.dumps(asdict(self)): the text that encodes the reading's fields
to_json(weather_reading) == PyStr(weather_reading)

\* record['ingestion_time'] = current_time raises TypeError on a str
ItemAssignmentRaises(record) == record.type # "dict"

\* ingest_weather_data on a list of Python values: the loop raises on the
\* first element that is no dict, and the except returns False
ingest_weather_data_values(ingest_client, stream_fails, weather_data, current_time) ==
    IF ~ingest_client
    THEN [value |-> FALSE, ingested |-> <<>>]
    ELSE IF \E i \in 1 .. Len(weather_data) : ItemAssignmentRaises(weather_data[i])
    THEN [value |-> FALSE, ingested |-> <<>>]
    ELSE ingest_weather_data(ingest_client, stream_fails,
                             [i \in 1 .. Len(weather_data) |-> weather_data[i].items],
                             current_time)

\* weather_callback of start_data_collection, its Kusto half:
\* weather_data = [weather_reading.to_json()];
\* self.kusto_client.ingest_weather_data(weather_data)
weather_callback(ingest_client, stream_fails, weather_reading, current_time) ==
    ingest_weather_data_values(ingest_client, stream_fails,
                               <<to_json(weather_reading)>>, current_time)

\* ===========================================================================
\* WeatherEventHubConsumer
\* ===========================================================================
\* self.events_processed % 10 == 0
CheckpointEvery == 10

\* What can happen to one delivered event: it is processed, body_as_str or
\* json.loads raises, the handler raises, or the handler succeeds and
\* update_checkpoint raises if it is called.
DeliveryOutcomes == {"ok", "decode", "handler", "checkpoint"}

\* process_events(partition_context, event).  unchecked[p] counts the events
\* of partition p that were processed after the partition's last checkpoint,
\* checkpoint_errors the update_checkpoint calls that raised.
process_events(c, partition, outcome) ==
    IF outcome \in {"decode", "handler"}
    THEN \* except Exception: self.events_failed += 1
         [c EXCEPT !.events_failed = @ + 1]
    ELSE LET counted == [c EXCEPT !.events_processed = @ + 1,
                                  !.unchecked[partition] = @ + 1]
         IN  IF counted.events_processed % CheckpointEvery # 0
             THEN counted
             ELSE IF outcome = "checkpoint"
             THEN \* update_checkpoint raises inside the same try
                  [counted EXCEPT !.events_failed = @ + 1,
                                  !.checkpoint_errors = @ + 1]
             ELSE [counted EXCEPT !.unchecked[partition] = 0]

\* get_statistics(): the two counters
get_statistics(c) ==
    [events_processed |-> c.events_processed, events_failed |-> c.events_failed]

\* ===========================================================================
\* WeatherEventHubProducer
\* ===========================================================================
\* a slice that runs one element too far
BatchSliceInclusive(weather_readings, i, batch_size) ==
    SubSeq(weather_readings, i + 1, Min2(i + batch_size + 1, Len(weather_readings)))

\* weather_readings[i:i + self._batch_size], i counted from 0
BatchSlice(weather_readings, i, batch_size) ==
    SubSeq(weather_readings, i + 1, Min2(i + batch_size, Len(weather_readings)))

\* _send_batch(weather_readings).  An EventDataBatch takes `capacity` events
\* before add raises ValueError; the send_batch call number fail_at of the
\* whole send_weather_readings call raises (0: none does); sends_before calls
\* were made before this batch.  Returns whether the batch was sent and the
\* Event Hub batches that reached the hub.
RECURSIVE SendEventBatches(_, _, _, _, _, _)
SendEventBatches(weather_readings, k, event_data_batch, sent, capacity, fail) ==
    IF k > Len(weather_readings)
    THEN \* the final batch
         IF Len(event_data_batch) = 0 THEN [ok |-> TRUE, sent |-> sent]
         ELSE IF fail = Len(sent) + 1 THEN [ok |-> FALSE, sent |-> sent]
         ELSE [ok |-> TRUE, sent |-> Append(sent, event_data_batch)]
    ELSE IF Len(event_data_batch) < capacity
    THEN SendEventBatches(weather_readings, k + 1,
                          Append(event_data_batch, weather_readings[k]),
                          sent, capacity, fail)
    ELSE \* add raised ValueError: send what there is, start a new batch
         IF Len(event_data_batch) > 0 /\ fail = Len(sent) + 1
         THEN [ok |-> FALSE, sent |-> sent]
         ELSE IF capacity = 0
         THEN \* add raises on the new batch as well; the outer except returns False
              [ok |-> FALSE, sent |-> sent]
         ELSE SendEventBatches(weather_readings, k + 1, <<weather_readings[k]>>,
                               IF Len(event_data_batch) > 0
                               THEN Append(sent, event_data_batch) ELSE sent,
                               capacity, fail)

send_batch(weather_readings, capacity, fail_at, sends_before) ==
    LET r == SendEventBatches(weather_readings, 1, <<>>, <<>>, capacity,
                              fail_at - sends_before)
    IN  [ok |-> r.ok, sent |-> r.sent]

\* the loop of send_weather_readings from offset i on: attempted are the
\* batches handed to _send_batch, sent the Event Hub batches that reached the hub
RECURSIVE SendFrom(_, _, _, _, _, _, _)
SendFrom(weather_readings, i, batch_size, capacity, fail_at, attempted, sent) ==
    IF i >= Len(weather_readings)
    THEN [value |-> TRUE, attempted |-> attempted, sent |-> sent]
    ELSE LET batch == BatchSlice(weather_readings, i, batch_size)
             success == send_batch(batch, capacity, fail_at, Len(sent))
         IN  IF ~success.ok
             THEN [value |-> FALSE, attempted |-> Append(attempted, batch),
                   sent |-> sent \o success.sent]
             ELSE SendFrom(weather_readings, i + batch_size, batch_size, capacity,
                           fail_at, Append(attempted, batch), sent \o success.sent)

send_weather_readings(producer_client, weather_readings, batch_size, capacity, fail_at) ==
    IF ~producer_client
    THEN [value |-> FALSE, attempted |-> <<>>, sent |-> <<>>]
    ELSE SendFrom(weather_readings, 0, batch_size, capacity, fail_at, <<>>, <<>>)

\* ===========================================================================
\* WeatherIntelligencePlatform.run_health_checks
\* ===========================================================================
\* WeatherKustoClient.execute_query / get_latest_weather_data: the number of
\* rows of the DataFrame returned.  query_client is "none" (never
\* initialised), "open" or "closed"; every failure is caught inside
\* execute_query and an empty DataFrame is returned.
execute_query(query_client, query_fails, rows) ==
    IF query_client = "none" THEN 0
    ELSE IF query_client = "closed" \/ query_fails
    THEN \* the SDK call raises; except Exception: return pd.DataFrame()
         0
    ELSE rows

get_latest_weather_data(query_client, query_fails, rows) ==
    execute_query(query_client, query_fails, rows)

\* the health_status dict; kusto_client and event_consumer say whether the
\* platform holds such an object
run_health_checks(kusto_client, query_client, query_fails, rows, event_consumer, statistics) ==
    LET kusto ==
            IF kusto_client
            THEN [c \in {"kusto"} |->
                     [status |-> "healthy",
                      recent_records |->
                          get_latest_weather_data(query_client, query_fails, rows)]]
            ELSE EmptyDict
        events ==
            IF event_consumer
            THEN [c \in {"event_consumer"} |->
                     [status |-> "healthy", statistics |-> statistics]]
            ELSE EmptyDict
    IN  [platform_status |-> "healthy",
         components |-> [c \in DOMAIN kusto \cup DOMAIN events |->
                            IF c \in DOMAIN kusto THEN kusto[c] ELSE events[c]]]

\* ===========================================================================
\* The registries as state machines
\* ===========================================================================
AllColumns == {FrameColumns[i] : i \in 1 .. Len(FrameColumns)}

\* Training frames handed to ARIMAWeatherModel.train_model, by what the code
\* reads from them.
ArimaData ==
    { [id |-> 1, rows |-> 49, bins |-> 49, last_ts |-> 40, hascol |-> TRUE,
       a |-> 1, b |-> 1, c |-> 1, k |-> 0, m |-> 3, base |-> 100, fail |-> "none"],
      [id |-> 2, rows |-> 60, bins |-> 60, last_ts |-> 57, hascol |-> TRUE,
       a |-> 2, b |-> 1, c |-> 1, k |-> 1, m |-> 5, base |-> 100, fail |-> "none"],
      [id |-> 3, rows |-> 60, bins |-> 60, last_ts |-> 30, hascol |-> TRUE,
       a |-> 1, b |-> 1, c |-> 1, k |-> 0, m |-> 3, base |-> 100, fail |-> "all"],
      [id |-> 4, rows |-> 55, bins |-> 12, last_ts |-> 60, hascol |-> TRUE,
       a |-> 1, b |-> 2, c |-> 1, k |-> 2, m |-> 7, base |-> 0 - 20, fail |-> "none"],
      [id |-> 5, rows |-> 60, bins |-> 70, last_ts |-> 33, hascol |-> FALSE,
       a |-> 1, b |-> 1, c |-> 1, k |-> 0, m |-> 3, base |-> 100, fail |-> "none"] }

ArimaDataById(id) == CHOOSE d \in ArimaData : d.id = id

\* Frames handed to train_regression_model (rows of the region).
XgbRegressionData ==
    { [id |-> 1, rows |-> 99, columns |-> FrameColumns, fitfail |-> FALSE],
      [id |-> 2, rows |-> 120, columns |-> FrameColumns, fitfail |-> FALSE],
      [id |-> 3, rows |-> 120, columns |-> FrameColumns, fitfail |-> TRUE] }

\* Frames handed to train_classification_model.
XgbClassificationData ==
    { [id |-> 5, rows |-> 99, pos |-> 10, tie |-> "pos", columns |-> FrameColumns,
       fitfail |-> FALSE, predicts_pos |-> TRUE],
      [id |-> 6, rows |-> 100, pos |-> 19, tie |-> "pos", columns |-> FrameColumns,
       fitfail |-> FALSE, predicts_pos |-> TRUE],
      [id |-> 7, rows |-> 100, pos |-> 2, tie |-> "neg", columns |-> FrameColumns,
       fitfail |-> FALSE, predicts_pos |-> FALSE],
      [id |-> 8, rows |-> 105, pos |-> 1, tie |-> "neg", columns |-> FrameColumns,
       fitfail |-> FALSE, predicts_pos |-> FALSE],
      [id |-> 9, rows |-> 100, pos |-> 0, tie |-> "neg", columns |-> FrameColumns,
       fitfail |-> TRUE, predicts_pos |-> FALSE] }

\* Feature frames handed to the predict calls: one row, a value per column.
ColumnIndex(col) == CHOOSE i \in 1 .. Len(FrameColumns) : FrameColumns[i] = col
FeatureFrames ==
    { [id |-> 1, values |-> [col \in AllColumns |-> 1]],
      [id |-> 2, values |-> [col \in AllColumns |-> ColumnIndex(col)]] }

\* Values the configuration gives a new instance (PREDICTION_HORIZON_MINUTES,
\* SEVERE_WEATHER_THRESHOLD in tenths).
Horizons == {10, 15}
Thresholds == {5, 7}

StepArgs == {None} \cup {Some(n) : n \in 1 .. MaxSteps}
IoOutcomes == {"ok", "mkdir", "dump"}

NotSaved == [ok |-> FALSE, inst |-> <<>>, file |-> NoFile, threshold |-> 0]

\* the moment of a call
Now == nops

\* ret holds a prediction.  A prediction changes nothing else, so whatever can
\* follow it can follow the state before it, and is explored from there.
Observed ==
    ret.op \in {"predict", "predict_parameter", "predict_severe_weather"}

CurrentXgb ==
    XgbInstance(regression_models, classification_model, scalers, label_encoders,
                feature_columns, xgb_last_training_time)

ArimaEmpty ==
    /\ models = EmptyDict
    /\ model_params = EmptyDict
    /\ last_training_time = None

XgbEmpty ==
    /\ regression_models = EmptyDict
    /\ classification_model = None
    /\ scalers = EmptyDict
    /\ label_encoders = EmptyDict
    /\ feature_columns = <<>>
    /\ xgb_last_training_time = None

Init ==
    /\ family \in {"arima", "xgboost"}
    /\ library \in BOOLEAN
    /\ strict_names \in (IF family = "xgboost" THEN BOOLEAN ELSE {TRUE})
    /\ ServicesIdle
    /\ bundle_file = NoFile
    /\ ArimaEmpty
    /\ prediction_horizon \in (IF family = "arima" THEN Horizons ELSE {15})
    /\ XgbEmpty
    /\ severe_weather_threshold \in (IF family = "xgboost" THEN Thresholds ELSE {7})
    /\ ret = NoCall
    /\ saved = NotSaved
    /\ nops = 0
    /\ arg = None
    /\ result = None

\* ---- ARIMAWeatherModel ------------------------------------------------------
TrainModel(region, parameter, d) ==
    /\ family = "arima"
    /\ nops < MaxOps
    /\ ~Observed
    /\ LET r == train_model(library, models, model_params, d, region, parameter) IN
       /\ models' = r.models
       /\ model_params' = r.model_params
       /\ ret' = [op |-> "train_model", region |-> region, parameter |-> parameter,
                  value |-> r.value]
    /\ nops' = nops + 1
    /\ UNCHANGED <<envVars, bundle_file, last_training_time, prediction_horizon,
                   xgbVars, saved, pureVars>>

Predict(region, parameter, steps) ==
    /\ family = "arima"
    /\ ~Observed
    /\ ret' = [op |-> "predict", region |-> region, parameter |-> parameter,
               steps |-> steps, raised |-> FALSE,
               value |-> predict(models, prediction_horizon, region, parameter, steps)]
    /\ UNCHANGED <<envVars, bundle_file, arimaVars, xgbVars, saved, nops, pureVars>>

ArimaSaveModels(io) ==
    /\ family = "arima"
    /\ nops < MaxOps
    /\ ~Observed
    /\ LET r == arima_save_models(models, model_params, prediction_horizon, Now,
                                  bundle_file, io) IN
       /\ bundle_file' = r.file
       /\ ret' = [op |-> "save_models", value |-> r.value]
       /\ saved' = IF r.value
                   THEN [ok |-> TRUE,
                         inst |-> [models |-> models, model_params |-> model_params],
                         file |-> r.file, threshold |-> 0]
                   ELSE saved
    /\ nops' = nops + 1
    /\ UNCHANGED <<envVars, arimaVars, xgbVars, pureVars>>

ArimaLoadModels ==
    /\ family = "arima"
    /\ nops < MaxOps
    /\ ~Observed
    /\ LET r == arima_load_models(library, models, model_params, last_training_time,
                                  bundle_file) IN
       /\ models' = r.models
       /\ model_params' = r.model_params
       /\ last_training_time' = r.last_training_time
       /\ ret' = [op |-> "load_models", value |-> r.value, fresh |-> ArimaEmpty]
    /\ nops' = nops + 1
    /\ UNCHANGED <<envVars, bundle_file, prediction_horizon, xgbVars, saved, pureVars>>

\* ARIMAWeatherModel(config): a new, empty instance takes the place of the old
ArimaNew(horizon) ==
    /\ family = "arima"
    /\ nops < MaxOps
    /\ ~Observed
    /\ ~ArimaEmpty
    /\ models' = EmptyDict
    /\ model_params' = EmptyDict
    /\ last_training_time' = None
    /\ prediction_horizon' = horizon
    /\ ret' = [op |-> "__init__"]
    /\ nops' = nops + 1
    /\ UNCHANGED <<envVars, bundle_file, xgbVars, saved, pureVars>>

\* Something else than save_models puts the file at the path: it is removed,
\* or it is a bundle written without one of the fields.
ForeignFile(f) ==
    /\ nops < MaxOps
    /\ ~Observed
    /\ f # bundle_file
    /\ bundle_file' = f
    /\ ret' = [op |-> "external"]
    /\ nops' = nops + 1
    /\ UNCHANGED <<envVars, arimaVars, xgbVars, saved, pureVars>>

ForeignFiles ==
    {NoFile} \cup
    (IF bundle_file.kind = "pickle"
     THEN {DropField(bundle_file, name) :
              name \in {"model_params", "classification_model", "feature_columns"}}
     ELSE {})

\* ---- XGBoostWeatherModel ----------------------------------------------------
CreateFeatures(regions) ==
    /\ family = "xgboost"
    /\ library
    /\ nops < MaxOps
    /\ ~Observed
    /\ label_encoders' = create_features_encoders(label_encoders, regions)
    /\ ret' = [op |-> "create_features"]
    /\ nops' = nops + 1
    /\ UNCHANGED <<envVars, bundle_file, arimaVars, regression_models,
                   classification_model, scalers, feature_columns,
                   xgb_last_training_time, severe_weather_threshold, saved, pureVars>>

TrainRegression(region, parameter, d) ==
    /\ family = "xgboost"
    /\ nops < MaxOps
    /\ ~Observed
    /\ LET r == train_regression_model(library, regression_models, feature_columns,
                                       d, region, parameter) IN
       /\ regression_models' = r.regression_models
       /\ feature_columns' = r.feature_columns
       /\ ret' = [op |-> "train_regression_model", region |-> region,
                  parameter |-> parameter, value |-> r.value]
    /\ nops' = nops + 1
    /\ UNCHANGED <<envVars, bundle_file, arimaVars, classification_model, scalers,
                   label_encoders, xgb_last_training_time, severe_weather_threshold,
                   saved, pureVars>>

TrainClassification(d) ==
    /\ family = "xgboost"
    /\ nops < MaxOps
    /\ ~Observed
    /\ LET r == train_classification_model(library, classification_model,
                                           feature_columns, d) IN
       /\ classification_model' = r.classification_model
       /\ feature_columns' = r.feature_columns
       /\ ret' = [op |-> "train_classification_model", value |-> r.value]
    /\ nops' = nops + 1
    /\ UNCHANGED <<envVars, bundle_file, arimaVars, regression_models, scalers,
                   label_encoders, xgb_last_training_time, severe_weather_threshold,
                   saved, pureVars>>

PredictParameter(region, parameter, features) ==
    /\ family = "xgboost"
    /\ ~Observed
    /\ ret' = [op |-> "predict_parameter", region |-> region,
               parameter |-> parameter, features |-> features.id, raised |-> FALSE,
               value |-> predict_parameter(strict_names, regression_models,
                                           feature_columns, region, parameter,
                                           features)]
    /\ UNCHANGED <<envVars, bundle_file, arimaVars, xgbVars, saved, nops, pureVars>>

PredictSevereWeather(features) ==
    /\ family = "xgboost"
    /\ ~Observed
    /\ ret' = [op |-> "predict_severe_weather", features |-> features.id,
               raised |-> FALSE,
               value |-> predict_severe_weather(strict_names, classification_model,
                                                feature_columns,
                                                severe_weather_threshold, features)]
    /\ UNCHANGED <<envVars, bundle_file, arimaVars, xgbVars, saved, nops, pureVars>>

XgbSaveModels(io) ==
    /\ family = "xgboost"
    /\ nops < MaxOps
    /\ ~Observed
    /\ LET r == xgb_save_models(CurrentXgb, severe_weather_threshold, Now,
                                bundle_file, io) IN
       /\ bundle_file' = r.file
       /\ ret' = [op |-> "save_models", value |-> r.value]
       /\ saved' = IF r.value
                   THEN [ok |-> TRUE, inst |-> CurrentXgb, file |-> r.file,
                         threshold |-> severe_weather_threshold]
                   ELSE saved
    /\ nops' = nops + 1
    /\ UNCHANGED <<envVars, arimaVars, xgbVars, pureVars>>

XgbLoadModels ==
    /\ family = "xgboost"
    /\ nops < MaxOps
    /\ ~Observed
    /\ LET r == xgb_load_models(library, CurrentXgb, bundle_file) IN
       /\ regression_models' = r.inst.regression_models
       /\ classification_model' = r.inst.classification_model
       /\ scalers' = r.inst.scalers
       /\ label_encoders' = r.inst.label_encoders
       /\ feature_columns' = r.inst.feature_columns
       /\ xgb_last_training_time' = r.inst.last_training_time
       /\ ret' = [op |-> "load_models", value |-> r.value, fresh |-> XgbEmpty]
    /\ nops' = nops + 1
    /\ UNCHANGED <<envVars, bundle_file, arimaVars, severe_weather_threshold,
                   saved, pureVars>>

\* XGBoostWeatherModel(config): a new, empty instance takes the place of the old
XgbNew(threshold) ==
    /\ family = "xgboost"
    /\ nops < MaxOps
    /\ ~Observed
    /\ ~XgbEmpty
    /\ regression_models' = EmptyDict
    /\ classification_model' = None
    /\ scalers' = EmptyDict
    /\ label_encoders' = EmptyDict
    /\ feature_columns' = <<>>
    /\ xgb_last_training_time' = None
    /\ severe_weather_threshold' = threshold
    /\ ret' = [op |-> "__init__"]
    /\ nops' = nops + 1
    /\ UNCHANGED <<envVars, bundle_file, arimaVars, saved, pureVars>>

Next ==
    \/ \E key \in TrainKeys, d \in ArimaData : TrainModel(key[1], key[2], d)
    \/ \E region \in Regions, parameter \in Parameters, steps \in StepArgs :
           Predict(region, parameter, steps)
    \/ \E io \in IoOutcomes : ArimaSaveModels(io)
    \/ ArimaLoadModels
    \/ \E horizon \in Horizons : ArimaNew(horizon)
    \/ \E f \in ForeignFiles : ForeignFile(f)
    \/ CreateFeatures(<<"north", "south">>)
    \/ \E key \in TrainKeys, d \in XgbRegressionData :
           TrainRegression(key[1], key[2], d)
    \/ \E d \in XgbClassificationData : TrainClassification(d)
    \/ \E region \in Regions, parameter \in Parameters, features \in FeatureFrames :
           PredictParameter(region, parameter, features)
    \/ \E features \in FeatureFrames : PredictSevereWeather(features)
    \/ \E io \in IoOutcomes : XgbSaveModels(io)
    \/ XgbLoadModels
    \/ \E threshold \in Thresholds : XgbNew(threshold)

Spec == Init /\ [][Next]_vars

\* ===========================================================================
\* The pure functions, each applied once to an input drawn by Init
\* ===========================================================================
Idle ==
    /\ library = TRUE
    /\ strict_names = TRUE
    /\ ServicesIdle
    /\ bundle_file = NoFile
    /\ ArimaEmpty
    /\ prediction_horizon = 15
    /\ XgbEmpty
    /\ severe_weather_threshold = 7
    /\ ret = NoCall
    /\ saved = NotSaved
    /\ nops = 0
    /\ result = None

\* ---- auto_arima_params ------------------------------------------------------
AutoSeries ==
    { [id |-> 0, rows |-> bins, bins |-> bins, last_ts |-> 0, hascol |-> TRUE,
       a |-> a, b |-> b, c |-> c, k |-> k, m |-> m, base |-> base, fail |-> fail] :
      bins \in {49, 50, 51}, a \in {0, 1, 2}, b \in {0, 1}, c \in {0, 1, 3},
      k \in {0, 1, 2}, m \in {2, 5}, base \in {0 - 7, 100},
      fail \in {"none", "all", "high", "nodiff"} }

InitAuto ==
    /\ family = "none"
    /\ Idle
    /\ arg \in [op : {"auto_arima_params"}, lib : BOOLEAN, d : AutoSeries]

AutoArimaParams ==
    /\ arg.op = "auto_arima_params"
    /\ result = None
    /\ result' = Some(auto_arima_params(arg.lib, arg.d))
    /\ UNCHANGED <<envVars, bundle_file, arimaVars, xgbVars, ret, saved, nops, arg>>

SpecAuto == InitAuto /\ [][AutoArimaParams]_vars

\* ---- _create_severe_weather_target -------------------------------------------
FullReadings ==
    [temperature : {0 - 60, 0 - 51, 0 - 50, 0 - 49, 200, 399, 400, 401},
     wind_speed : {50, 199, 200, 201},
     visibility : {19, 20, 21, 100},
     weather_condition : {"Clear", "Rain", "Thunderstorm", "Tornado", "Hurricane",
                          "Blizzard", "Hail"}]
ReadingColumns == {"temperature", "wind_speed", "visibility", "weather_condition"}
Restrict(row, columns) == [col \in columns |-> row[col]]
Readings ==
    FullReadings
    \cup {Restrict(row, ReadingColumns \ {col}) :
              row \in FullReadings, col \in ReadingColumns}

InitLabel ==
    /\ family = "none"
    /\ Idle
    /\ arg \in [op : {"severe_weather"}, row : Readings]

CreateSevereWeatherTarget ==
    /\ arg.op = "severe_weather"
    /\ result = None
    /\ result' = Some(create_severe_weather_target(arg.row))
    /\ UNCHANGED <<envVars, bundle_file, arimaVars, xgbVars, ret, saved, nops, arg>>

SpecLabel == InitLabel /\ [][CreateSevereWeatherTarget]_vars

\* ---- train_classification_model on a new instance ----------------------------
SplitFrames ==
    [id : {1}, rows : {99, 100, 101, 102, 104, 110},
     pos : {0, 1, 2, 3, 10, 17, 19, 25, 50, 99, 100},
     tie : {"pos", "neg"}, columns : {FrameColumns},
     fitfail : BOOLEAN, predicts_pos : BOOLEAN]

InitSplit ==
    /\ family = "xgboost"
    /\ Idle
    /\ arg \in [op : {"split"}, d : {d \in SplitFrames : d.pos <= d.rows}]

TrainClassifierOnce ==
    /\ arg.op = "split"
    /\ nops = 0
    /\ TrainClassification(arg.d)

SpecSplit == InitSplit /\ [][TrainClassifierOnce]_vars

\* ---- create_features ---------------------------------------------------------
RawFrames ==
    UNION { [1 .. n -> [region : Regions, timestamp : {1, 2}, pressure : {0}]] :
            n \in 1 .. MaxRows }

\* the row at position i reads 1000 + i*i, so that no two differences agree
WithPressure(frame) ==
    [i \in 1 .. Len(frame) |-> [frame[i] EXCEPT !.pressure = 1000 + i * i]]

InitFeatures ==
    /\ family = "none"
    /\ Idle
    /\ arg \in [op : {"create_features"}, edited : {FALSE},
                frame : {WithPressure(frame) : frame \in RawFrames}]

CreateFeaturesOfFrame ==
    /\ arg.op = "create_features"
    /\ result = None
    /\ result' = Some(create_features(arg.frame))
    /\ UNCHANGED <<envVars, bundle_file, arimaVars, xgbVars, ret, saved, nops, arg>>

\* one raw value of one row is changed and the features are computed again
EditRow(i, column) ==
    /\ arg.op = "create_features"
    /\ result # None
    /\ ~arg.edited
    /\ i \in 1 .. Len(arg.frame)
    /\ LET row == arg.frame[i]
           edited == IF column = "pressure"
                     THEN [row EXCEPT !.pressure = row.pressure + 7]
                     ELSE [row EXCEPT !.timestamp = 3 - row.timestamp]
           frame == [arg.frame EXCEPT ![i] = edited]
       IN  /\ arg' = [arg EXCEPT !.frame = frame, !.edited = TRUE]
           /\ result' = Some(create_features(frame))
    /\ UNCHANGED <<envVars, bundle_file, arimaVars, xgbVars, ret, saved, nops>>

NextFeatures ==
    \/ CreateFeaturesOfFrame
    \/ \E i \in 1 .. MaxRows, column \in {"pressure", "timestamp"} : EditRow(i, column)

SpecFeatures == InitFeatures /\ [][NextFeatures]_vars

\* ---- ingest_weather_data -----------------------------------------------------
WeatherRecords ==
    LET full == [temperature : {0 - 1, 200, 351},
                 wind_speed : {100, 151, 201},
                 visibility : {19, 49, 100},
                 severity_score : {<<0 - 2, 0>>, <<5, 0>>, <<15, 0>>},
                 alert_level : {"low", "critical"}]
        columns == {"temperature", "wind_speed", "visibility", "severity_score",
                    "alert_level"}
    IN  {Restrict(record, keep) :
            record \in full,
            keep \in {columns, columns \ {"severity_score"}, columns \ {"alert_level"},
                      columns \ {"severity_score", "alert_level"},
                      {"wind_speed", "visibility"}, {"temperature"}}}

InitIngest ==
    /\ family = "none"
    /\ Idle
    /\ arg \in [op : {"ingest_weather_data"}, ingest_client : BOOLEAN,
                stream_fails : BOOLEAN,
                weather_data : {<<record>> : record \in WeatherRecords}
                               \cup {<<[temperature |-> 351, wind_speed |-> 201],
                                       record>> :
                                         record \in {[visibility |-> 49],
                                                     [visibility |-> 19,
                                                      alert_level |-> "low"]}}]

IngestWeatherData ==
    /\ arg.op = "ingest_weather_data"
    /\ result = None
    /\ result' = Some(ingest_weather_data(arg.ingest_client, arg.stream_fails,
                                          arg.weather_data, Now))
    /\ UNCHANGED <<envVars, bundle_file, arimaVars, xgbVars, ret, saved, nops, arg>>

SpecIngest == InitIngest /\ [][IngestWeatherData]_vars

\* ---- the registries with every call's input on record ------------------------
\* arg holds the input of the last call, ret what it returned.  load_models
\* and the creation of a second instance are left out.
MaxCalls == 3

CallKeys == {<<"north", "temperature">>, <<"north", "visibility">>,
             <<"south", "temperature">>}
AskedKeys == CallKeys \cup {<<"south", "visibility">>}
BatchParameters ==
    {None, Some(<<"temperature", "visibility">>), Some(<<"humidity">>)}
TestFrames ==
    { [hascol |-> TRUE, actual |-> <<3, 5>>],
      [hascol |-> TRUE, actual |-> <<>>],
      [hascol |-> FALSE, actual |-> <<>>] }

\* ret holds what a read-only call returned; it is a leaf like Observed
CallObserved ==
    ret.op \in {"predict", "batch_predict_all_regions", "evaluate_model",
                "predict_parameter", "predict_severe_weather"}

InitCalls ==
    /\ family \in {"arima", "xgboost"}
    /\ library \in BOOLEAN
    /\ strict_names \in (IF family = "xgboost" THEN BOOLEAN ELSE {TRUE})
    /\ ServicesIdle
    /\ bundle_file = NoFile
    /\ ArimaEmpty
    /\ prediction_horizon = 10
    /\ XgbEmpty
    /\ severe_weather_threshold = 7
    /\ ret = NoCall
    /\ saved = NotSaved
    /\ nops = 0
    /\ arg = [op |-> "none"]
    /\ result = None

CallTrainModel(region, parameter, d) ==
    /\ family = "arima"
    /\ nops < MaxCalls
    /\ ~CallObserved
    /\ LET r == train_model(library, models, model_params, d, region, parameter) IN
       /\ models' = r.models
       /\ model_params' = r.model_params
       /\ ret' = [op |-> "train_model", region |-> region, parameter |-> parameter,
                  value |-> r.value]
    /\ arg' = [op |-> "train_model", d |-> d]
    /\ nops' = nops + 1
    /\ UNCHANGED <<envVars, bundle_file, last_training_time, prediction_horizon,
                   xgbVars, saved, result>>

CallPredict(region, parameter, steps) ==
    /\ family = "arima"
    /\ ~CallObserved
    /\ ret' = [op |-> "predict", region |-> region, parameter |-> parameter,
               steps |-> steps, raised |-> FALSE,
               value |-> predict(models, prediction_horizon, region, parameter, steps)]
    /\ arg' = [op |-> "predict"]
    /\ UNCHANGED <<envVars, bundle_file, arimaVars, xgbVars, saved, nops, result>>

CallBatchPredict(parameters) ==
    /\ family = "arima"
    /\ ~CallObserved
    /\ ret' = [op |-> "batch_predict_all_regions", raised |-> FALSE,
               value |-> batch_predict_all_regions(models, prediction_horizon,
                                                   parameters)]
    /\ arg' = [op |-> "batch_predict_all_regions", parameters |-> parameters]
    /\ UNCHANGED <<envVars, bundle_file, arimaVars, xgbVars, saved, nops, result>>

CallEvaluateModel(region, parameter, test) ==
    /\ family = "arima"
    /\ ~CallObserved
    /\ ret' = [op |-> "evaluate_model", region |-> region, parameter |-> parameter,
               raised |-> FALSE,
               value |-> evaluate_model(models, prediction_horizon, test, region,
                                        parameter)]
    /\ arg' = [op |-> "evaluate_model", test |-> test]
    /\ UNCHANGED <<envVars, bundle_file, arimaVars, xgbVars, saved, nops, result>>

CallArimaSave(io) ==
    /\ family = "arima"
    /\ nops < MaxCalls
    /\ ~CallObserved
    /\ LET r == arima_save_models(models, model_params, prediction_horizon, Now,
                                  bundle_file, io) IN
       /\ bundle_file' = r.file
       /\ ret' = [op |-> "save_models", value |-> r.value]
    /\ arg' = [op |-> "save_models"]
    /\ nops' = nops + 1
    /\ UNCHANGED <<envVars, arimaVars, xgbVars, saved, result>>

\* encoder_bound: the failed import had already bound the name LabelEncoder
CallCreateFeatures(encoder_bound) ==
    /\ family = "xgboost"
    /\ library => encoder_bound
    /\ nops < MaxCalls
    /\ ~CallObserved
    /\ LET r == create_features_call(label_encoders, encoder_bound, Regions) IN
       /\ label_encoders' = r.label_encoders
       /\ ret' = [op |-> "create_features", raised |-> r.raised, value |-> r.value]
    /\ arg' = [op |-> "create_features"]
    /\ nops' = nops + 1
    /\ UNCHANGED <<envVars, bundle_file, arimaVars, regression_models,
                   classification_model, scalers, feature_columns,
                   xgb_last_training_time, severe_weather_threshold, saved, result>>

CallTrainRegression(region, parameter, d) ==
    /\ family = "xgboost"
    /\ nops < MaxCalls
    /\ ~CallObserved
    /\ LET r == train_regression_model(library, regression_models, feature_columns,
                                       d, region, parameter) IN
       /\ regression_models' = r.regression_models
       /\ feature_columns' = r.feature_columns
       /\ ret' = [op |-> "train_regression_model", region |-> region,
                  parameter |-> parameter, value |-> r.value]
    /\ arg' = [op |-> "train_regression_model", d |-> d]
    /\ nops' = nops + 1
    /\ UNCHANGED <<envVars, bundle_file, arimaVars, classification_model, scalers,
                   label_encoders, xgb_last_training_time, severe_weather_threshold,
                   saved, result>>

CallTrainClassification(d) ==
    /\ family = "xgboost"
    /\ nops < MaxCalls
    /\ ~CallObserved
    /\ LET r == train_classification_model(library, classification_model,
                                           feature_columns, d) IN
       /\ classification_model' = r.classification_model
       /\ feature_columns' = r.feature_columns
       /\ ret' = [op |-> "train_classification_model", value |-> r.value]
    /\ arg' = [op |-> "train_classification_model", d |-> d]
    /\ nops' = nops + 1
    /\ UNCHANGED <<envVars, bundle_file, arimaVars, regression_models, scalers,
                   label_encoders, xgb_last_training_time, severe_weather_threshold,
                   saved, result>>

CallPredictParameter(region, parameter, features) ==
    /\ family = "xgboost"
    /\ ~CallObserved
    /\ ret' = [op |-> "predict_parameter", region |-> region,
               parameter |-> parameter, features |-> features.id, raised |-> FALSE,
               value |-> predict_parameter(strict_names, regression_models,
                                           feature_columns, region, parameter,
                                           features)]
    /\ arg' = [op |-> "predict_parameter"]
    /\ UNCHANGED <<envVars, bundle_file, arimaVars, xgbVars, saved, nops, result>>

CallPredictSevereWeather(features) ==
    /\ family = "xgboost"
    /\ ~CallObserved
    /\ ret' = [op |-> "predict_severe_weather", features |-> features.id,
               raised |-> FALSE,
               value |-> predict_severe_weather(strict_names, classification_model,
                                                feature_columns,
                                                severe_weather_threshold, features)]
    /\ arg' = [op |-> "predict_severe_weather"]
    /\ UNCHANGED <<envVars, bundle_file, arimaVars, xgbVars, saved, nops, result>>

CallXgbSave(io) ==
    /\ family = "xgboost"
    /\ nops < MaxCalls
    /\ ~CallObserved
    /\ LET r == xgb_save_models(CurrentXgb, severe_weather_threshold, Now,
                                bundle_file, io) IN
       /\ bundle_file' = r.file
       /\ ret' = [op |-> "save_models", value |-> r.value]
    /\ arg' = [op |-> "save_models"]
    /\ nops' = nops + 1
    /\ UNCHANGED <<envVars, arimaVars, xgbVars, saved, result>>

NextCalls ==
    \/ \E key \in CallKeys, d \in ArimaData : CallTrainModel(key[1], key[2], d)
    \/ \E key \in AskedKeys, steps \in {None, Some(MaxSteps)} :
           CallPredict(key[1], key[2], steps)
    \/ \E parameters \in BatchParameters : CallBatchPredict(parameters)
    \/ \E key \in AskedKeys, test \in TestFrames :
           CallEvaluateModel(key[1], key[2], test)
    \/ \E io \in IoOutcomes : CallArimaSave(io)
    \/ \E encoder_bound \in BOOLEAN : CallCreateFeatures(encoder_bound)
    \/ \E key \in CallKeys, d \in XgbRegressionData :
           CallTrainRegression(key[1], key[2], d)
    \/ \E d \in XgbClassificationData : CallTrainClassification(d)
    \/ \E key \in AskedKeys, features \in FeatureFrames :
           CallPredictParameter(key[1], key[2], features)
    \/ \E features \in FeatureFrames : CallPredictSevereWeather(features)
    \/ \E io \in IoOutcomes : CallXgbSave(io)

SpecCalls == InitCalls /\ [][NextCalls]_vars

\* ===========================================================================

\* ---- A training call taken statement by statement, with a reader ------------
\* arg is the frame of the training call: its arguments, its position pc, the
\* locals it has computed, and its return value once it returned.  result is
\* the entry the key had when the call began.  ret is what a reader saw.
MaxTrainings == 2

StepKeys == {<<"north", "temperature">>, <<"north", "visibility">>}
NoFrame == [op |-> "none", pc |-> "idle"]
Resting == {"idle", "returned", "abandoned"}

stepFixed == <<envVars, bundle_file, last_training_time, prediction_horizon,
               scalers, label_encoders, xgb_last_training_time,
               severe_weather_threshold, saved>>

InitSteps ==
    /\ family \in {"arima", "xgboost"}
    /\ library \in BOOLEAN
    /\ strict_names = TRUE
    /\ ServicesIdle
    /\ bundle_file = NoFile
    /\ ArimaEmpty
    /\ prediction_horizon = 10
    /\ XgbEmpty
    /\ severe_weather_threshold = 7
    /\ ret = NoCall
    /\ saved = NotSaved
    /\ nops = 0
    /\ arg = NoFrame
    /\ result = None

\* the entry of the key the call in arg is about
EntryOfCall ==
    IF arg.op = "train_model" THEN Lookup(models, arg.region, arg.parameter)
    ELSE IF arg.op = "train_regression_model"
    THEN Lookup(regression_models, arg.region, arg.parameter)
    ELSE classification_model

\* the entry a complete run of the call in frame c installs
NewEntry(c) ==
    IF c.op = "train_model"
    THEN ArimaEntry(c.d, auto_arima_params(TRUE, c.d))
    ELSE IF c.op = "train_regression_model"
    THEN RegressionEntry(c.d, FeatureCols(c.d.columns, c.parameter))
    ELSE ClassificationEntry(c.d, FeatureCols(c.d.columns, "severe_weather"))

At(op, pc) == arg.op = op /\ arg.pc = pc
Goto(pc) == arg' = [arg EXCEPT !.pc = pc]
Return(value) == arg' = [arg EXCEPT !.pc = "returned", !.value = value]

\* train_model(weather_data, region, parameter) is called
BeginTrainModel(region, parameter, d) ==
    /\ family = "arima"
    /\ arg.pc \in Resting
    /\ nops < MaxTrainings
    /\ arg' = [op |-> "train_model", region |-> region, parameter |-> parameter,
               d |-> d, pc |-> "readings", fitted |-> FALSE,
               optimal_params |-> None, value |-> None]
    /\ result' = Lookup(models, region, parameter)
    /\ nops' = nops + 1
    /\ UNCHANGED <<stepFixed, models, model_params, regression_models,
                   classification_model, feature_columns, ret>>

\* the row filter, the length test and the resampled series
TrainModelReadings ==
    /\ At("train_model", "readings")
    /\ IF arg.d.rows < MinArimaRows \/ ~arg.d.hascol
       THEN Return(FALSE)
       ELSE Goto("params")
    /\ UNCHANGED <<stepFixed, models, model_params, regression_models,
                   classification_model, feature_columns, ret, nops, result>>

\* optimal_params = self.auto_arima_params(series), its write to
\* self.model_params, and the test of the library
TrainModelParams ==
    /\ At("train_model", "params")
    /\ LET optimal_params == auto_arima_params(library, arg.d) IN
       /\ model_params' = SetItem(model_params, ParamKey(arg.region, arg.parameter),
                                  optimal_params)
       /\ arg' = [arg EXCEPT !.optimal_params = Some(optimal_params),
                             !.pc = IF library THEN "fit" ELSE "returned",
                             !.value = IF library THEN None ELSE FALSE]
    /\ UNCHANGED <<stepFixed, models, regression_models, classification_model,
                   feature_columns, ret, nops, result>>

\* fitted_model = model.fit()
TrainModelFit ==
    /\ At("train_model", "fit")
    /\ IF FitFails(arg.d, arg.optimal_params[1])
       THEN Return(FALSE)
       ELSE arg' = [arg EXCEPT !.pc = "region", !.fitted = TRUE]
    /\ UNCHANGED <<stepFixed, models, model_params, regression_models,
                   classification_model, feature_columns, ret, nops, result>>

\* if region not in self.models: self.models[region] = {}
TrainModelRegion ==
    /\ At("train_model", "region")
    /\ models' = CreateRegion(models, arg.region)
    /\ Goto("store")
    /\ UNCHANGED <<stepFixed, model_params, regression_models,
                   classification_model, feature_columns, ret, nops, result>>

\* self.models[region][parameter] = {...}; return True
TrainModelStore ==
    /\ At("train_model", "store")
    /\ models' = StoreEntry(models, arg.region, arg.parameter,
                            ArimaEntry(arg.d, arg.optimal_params[1]))
    /\ Return(TRUE)
    /\ UNCHANGED <<stepFixed, model_params, regression_models,
                   classification_model, feature_columns, ret, nops, result>>

\* train_regression_model(weather_data, region, parameter) is called
BeginTrainRegression(region, parameter, d) ==
    /\ family = "xgboost"
    /\ arg.pc \in Resting
    /\ nops < MaxTrainings
    /\ arg' = [op |-> "train_regression_model", region |-> region,
               parameter |-> parameter, d |-> d, pc |-> "check",
               fitted |-> FALSE, value |-> None]
    /\ result' = Lookup(regression_models, region, parameter)
    /\ nops' = nops + 1
    /\ UNCHANGED <<stepFixed, models, model_params, regression_models,
                   classification_model, feature_columns, ret>>

\* the test of the library, the row filter and the length test
TrainRegressionCheck ==
    /\ At("train_regression_model", "check")
    /\ IF ~library \/ arg.d.rows < MinXgbRows
       THEN Return(FALSE)
       ELSE Goto("prepare")
    /\ UNCHANGED <<stepFixed, models, model_params, regression_models,
                   classification_model, feature_columns, ret, nops, result>>

\* X, y = self.prepare_training_data(region_data, parameter)
TrainRegressionPrepare ==
    /\ At("train_regression_model", "prepare")
    /\ LET prep == prepare_training_data(feature_columns, arg.d.columns,
                                         arg.parameter) IN
       /\ feature_columns' = prep.feature_columns
       /\ IF prep.raised THEN Return(FALSE) ELSE Goto("fit")
    /\ UNCHANGED <<stepFixed, models, model_params, regression_models,
                   classification_model, ret, nops, result>>

\* the split, the scaler, grid_search.fit and the evaluation on the test set
TrainRegressionFit ==
    /\ At("train_regression_model", "fit")
    /\ IF arg.d.fitfail
       THEN Return(FALSE)
       ELSE arg' = [arg EXCEPT !.pc = "region", !.fitted = TRUE]
    /\ UNCHANGED <<stepFixed, models, model_params, regression_models,
                   classification_model, feature_columns, ret, nops, result>>

\* if region not in self.regression_models: self.regression_models[region] = {}
TrainRegressionRegion ==
    /\ At("train_regression_model", "region")
    /\ regression_models' = CreateRegion(regression_models, arg.region)
    /\ Goto("store")
    /\ UNCHANGED <<stepFixed, models, model_params, classification_model,
                   feature_columns, ret, nops, result>>

\* self.regression_models[region][parameter] = {...}; return True
TrainRegressionStore ==
    /\ At("train_regression_model", "store")
    /\ regression_models' =
           StoreEntry(regression_models, arg.region, arg.parameter,
                      RegressionEntry(arg.d, feature_columns))
    /\ Return(TRUE)
    /\ UNCHANGED <<stepFixed, models, model_params, classification_model,
                   feature_columns, ret, nops, result>>

\* train_classification_model(weather_data) is called
BeginTrainClassification(d) ==
    /\ family = "xgboost"
    /\ arg.pc \in Resting
    /\ nops < MaxTrainings
    /\ arg' = [op |-> "train_classification_model", d |-> d, pc |-> "check",
               fitted |-> FALSE, value |-> None]
    /\ result' = classification_model
    /\ nops' = nops + 1
    /\ UNCHANGED <<stepFixed, models, model_params, regression_models,
                   classification_model, feature_columns, ret>>

\* the test of the library
TrainClassificationCheck ==
    /\ At("train_classification_model", "check")
    /\ IF ~library THEN Return(FALSE) ELSE Goto("prepare")
    /\ UNCHANGED <<stepFixed, models, model_params, regression_models,
                   classification_model, feature_columns, ret, nops, result>>

\* X, y = self.prepare_training_data(weather_data, 'severe_weather') and the
\* length test
TrainClassificationPrepare ==
    /\ At("train_classification_model", "prepare")
    /\ LET prep == prepare_training_data(feature_columns, arg.d.columns,
                                         "severe_weather") IN
       /\ feature_columns' = prep.feature_columns
       /\ IF prep.raised \/ arg.d.rows < MinXgbRows
          THEN Return(FALSE)
          ELSE Goto("fit")
    /\ UNCHANGED <<stepFixed, models, model_params, regression_models,
                   classification_model, ret, nops, result>>

\* the stratified split, the scaler, xgb_classifier.fit, the predictions on
\* the test set and classification_report
TrainClassificationFit ==
    /\ At("train_classification_model", "fit")
    /\ IF StratifyRaises(arg.d) \/ arg.d.fitfail
       THEN Return(FALSE)
       ELSE arg' = [arg EXCEPT !.pc = "store", !.fitted = TRUE]
    /\ UNCHANGED <<stepFixed, models, model_params, regression_models,
                   classification_model, feature_columns, ret, nops, result>>

\* self.classification_model = {...}
TrainClassificationStore ==
    /\ At("train_classification_model", "store")
    /\ classification_model' = Some(ClassificationEntry(arg.d, feature_columns))
    /\ Goto("log")
    /\ UNCHANGED <<stepFixed, models, model_params, regression_models,
                   feature_columns, ret, nops, result>>

\* the log lines reading class_report['1'], and return True
TrainClassificationLog ==
    /\ At("train_classification_model", "log")
    /\ Return(ReportHasPositive(arg.d))
    /\ UNCHANGED <<stepFixed, models, model_params, regression_models,
                   classification_model, feature_columns, ret, nops, result>>

\* the caller abandons the call where it stands; nothing more of it runs
Abandon ==
    /\ arg.pc \notin Resting
    /\ Goto("abandoned")
    /\ UNCHANGED <<stepFixed, models, model_params, regression_models,
                   classification_model, feature_columns, ret, nops, result>>

\* a reader looks the key of the call up, at whatever point the call is
Read ==
    /\ arg.pc # "idle"
    /\ ret' = [op |-> "read", call |-> arg, previous |-> result,
               seen |-> EntryOfCall]
    /\ UNCHANGED <<stepFixed, models, model_params, regression_models,
                   classification_model, feature_columns, nops, arg, result>>

NextSteps ==
    \/ \E key \in StepKeys, d \in ArimaData : BeginTrainModel(key[1], key[2], d)
    \/ TrainModelReadings
    \/ TrainModelParams
    \/ TrainModelFit
    \/ TrainModelRegion
    \/ TrainModelStore
    \/ \E key \in StepKeys, d \in XgbRegressionData :
           BeginTrainRegression(key[1], key[2], d)
    \/ TrainRegressionCheck
    \/ TrainRegressionPrepare
    \/ TrainRegressionFit
    \/ TrainRegressionRegion
    \/ TrainRegressionStore
    \/ \E d \in XgbClassificationData : BeginTrainClassification(d)
    \/ TrainClassificationCheck
    \/ TrainClassificationPrepare
    \/ TrainClassificationFit
    \/ TrainClassificationStore
    \/ TrainClassificationLog
    \/ Abandon
    \/ Read

SpecSteps == InitSteps /\ [][NextSteps]_vars

\* ---- the split of train_regression_model -------------------------------------
\* weather_data[weather_data['region'] == region]: the labels of the region's
\* rows in the order the frame has them
RegionData(frame, region) ==
    LET InRegion(label) == frame[label].region = region
    IN  SelectSeq([i \in 1 .. Len(frame) |-> i], InRegion)

\* train_test_split(X, y, test_size=0.2, shuffle=False): the first rows train,
\* the last rows test
SplitUnshuffled(labels) ==
    [train |-> SubSeq(labels, 1, TrainSize(Len(labels))),
     test |-> SubSeq(labels, TrainSize(Len(labels)) + 1, Len(labels))]

\* scaler.fit_transform(X_train); scaler.transform(X_test): the rows the
\* scaler's statistics are computed from
ScalerFitRows(split) == split.train

InitChrono ==
    /\ family = "none"
    /\ Idle
    /\ arg \in [op : {"train_test_split"}, frame : RawFrames]

SplitRegionRows(region) ==
    /\ arg.op = "train_test_split"
    /\ result = None
    /\ LET split == SplitUnshuffled(RegionData(arg.frame, region)) IN
       result' = Some([region |-> region, train |-> split.train,
                       test |-> split.test, fitted_on |-> ScalerFitRows(split)])
    /\ UNCHANGED <<envVars, bundle_file, arimaVars, xgbVars, ret, saved, nops, arg>>

SpecChrono == InitChrono /\ [][\E region \in Regions : SplitRegionRows(region)]_vars

\* ---- missing feature values ---------------------------------------------------
\* One feature column: its values in row order, Some(x) or None for NaN.
\* Medians and the filled column are kept in halves (twice their value).
MaxColumnRows == 3

Present(column) ==
    LET NotMissing(x) == x # None
        there == SelectSeq(column, NotMissing)
    IN  [i \in 1 .. Len(there) |-> there[i][1]]

\* the k-th smallest of the values
KthSmallest(values, k) ==
    CHOOSE v \in {values[i] : i \in 1 .. Len(values)} :
        /\ Cardinality({i \in 1 .. Len(values) : values[i] < v}) < k
        /\ Cardinality({i \in 1 .. Len(values) : values[i] <= v}) >= k

\* DataFrame.median() of the column, NaN skipped; NaN when nothing is present
Median(column) ==
    LET values == Present(column)
        n == Len(values)
    IN  IF n = 0 THEN None
        ELSE IF n % 2 = 1 THEN Some(2 * KthSmallest(values, (n + 1) \div 2))
        ELSE Some(KthSmallest(values, n \div 2) + KthSmallest(values, n \div 2 + 1))

\* column.fillna(median)
fillna(column, median) ==
    [k \in 1 .. Len(column) |-> IF column[k] = None THEN median ELSE Some(2 * column[k][1])]

\* prepare_training_data: features_df.fillna(features_df.median()); what is
\* kept of it for prediction is self.feature_columns alone
TrainingFill(column) == [X |-> fillna(column, Median(column)), kept |-> None]

\* predict_parameter / predict_severe_weather:
\* features[self.feature_columns].fillna(features.median())
PredictionFill(features, kept) == fillna(features, Median(features))

FeatureColumnValues ==
    UNION { [1 .. n -> {None, Some(1), Some(4)}] : n \in 1 .. MaxColumnRows }

InitImpute ==
    /\ family = "none"
    /\ Idle
    /\ arg \in [op : {"fillna"}, training : FeatureColumnValues,
                features : FeatureColumnValues]

TrainOnColumn ==
    /\ arg.op = "fillna"
    /\ result = None
    /\ result' = Some([stage |-> "trained", kept |-> TrainingFill(arg.training).kept])
    /\ UNCHANGED <<envVars, bundle_file, arimaVars, xgbVars, ret, saved, nops, arg>>

PredictOnFrame ==
    /\ arg.op = "fillna"
    /\ result # None
    /\ result[1].stage = "trained"
    /\ result' = Some([stage |-> "predicted", kept |-> result[1].kept,
                       X |-> PredictionFill(arg.features, result[1].kept)])
    /\ UNCHANGED <<envVars, bundle_file, arimaVars, xgbVars, ret, saved, nops, arg>>

SpecImpute == InitImpute /\ [][TrainOnColumn \/ PredictOnFrame]_vars

\* ---- weather_callback ----------------------------------------------------------
CallbackReadings ==
    [temperature : {0 - 1, 200, 351}, wind_speed : {100, 151, 201},
     visibility : {19, 49, 100}]

InitCallback ==
    /\ family = "none"
    /\ Idle
    /\ arg \in [op : {"weather_callback"}, ingest_client : BOOLEAN,
                stream_fails : BOOLEAN, weather_reading : CallbackReadings]

WeatherCallback ==
    /\ arg.op = "weather_callback"
    /\ result = None
    /\ result' = Some(weather_callback(arg.ingest_client, arg.stream_fails,
                                       arg.weather_reading, Now))
    /\ UNCHANGED <<envVars, bundle_file, arimaVars, xgbVars, ret, saved, nops, arg>>

SpecCallback == InitCallback /\ [][WeatherCallback]_vars

\* ---- deliveries to the Event Hub consumer ---------------------------------------
\* nops counts the events delivered; ret holds the statistics before the last
\* delivery and what was delivered.
MaxDeliveries == 12

InitConsumer ==
    /\ family = "none"
    /\ Idle
    /\ arg = [op |-> "process_events"]

Deliver(partition, outcome) ==
    /\ arg.op = "process_events"
    /\ nops < MaxDeliveries
    /\ consumer' = process_events(consumer, partition, outcome)
    /\ ret' = [op |-> "process_events", partition |-> partition,
               outcome |-> outcome, before |-> get_statistics(consumer)]
    /\ nops' = nops + 1
    /\ UNCHANGED <<family, library, strict_names, platform, bundle_file, arimaVars,
                   xgbVars, saved, arg, result>>

SpecConsumer ==
    InitConsumer
    /\ [][\E partition \in Partitions, outcome \in DeliveryOutcomes :
              Deliver(partition, outcome)]_vars

\* ---- send_weather_readings -------------------------------------------------------
\* readings are numbered in the order of the list
MaxReadings == 4
MaxBatchSize == 3

InitProducer ==
    /\ family = "none"
    /\ Idle
    /\ arg \in [op : {"send_weather_readings"}, producer_client : BOOLEAN,
                weather_readings : {[k \in 1 .. n |-> k] : n \in 0 .. MaxReadings},
                batch_size : 1 .. MaxBatchSize, capacity : 0 .. 2,
                fail_at : 0 .. MaxReadings]

SendWeatherReadings ==
    /\ arg.op = "send_weather_readings"
    /\ result = None
    /\ result' = Some(send_weather_readings(arg.producer_client, arg.weather_readings,
                                            arg.batch_size, arg.capacity, arg.fail_at))
    /\ UNCHANGED <<envVars, bundle_file, arimaVars, xgbVars, ret, saved, nops, arg>>

SpecProducer == InitProducer /\ [][SendWeatherReadings]_vars

\* ---- run_health_checks ------------------------------------------------------------
InitHealth ==
    /\ family = "none"
    /\ Idle
    /\ arg \in [op : {"run_health_checks"}, kusto_client : BOOLEAN,
                query_client : {"none", "open", "closed"}, query_fails : BOOLEAN,
                rows : 0 .. 2, event_consumer : BOOLEAN,
                events_processed : 0 .. 1]

RunHealthChecks ==
    /\ arg.op = "run_health_checks"
    /\ result = None
    /\ result' = Some(run_health_checks(
                          arg.kusto_client, arg.query_client, arg.query_fails,
                          arg.rows, arg.event_consumer,
                          get_statistics([ConsumerNew EXCEPT
                              !.events_processed = arg.events_processed])))
    /\ UNCHANGED <<envVars, bundle_file, arimaVars, xgbVars, ret, saved, nops, arg>>

SpecHealth == InitHealth /\ [][RunHealthChecks]_vars

\* ---- WeatherIntelligencePlatform.start, shutdown and the signal handler ------------
\* platform.pc is the position of the main task: "created" before start(),
\* "initialize" inside initialize(), "gather" awaiting asyncio.gather, "shutdown"
\* in the finally block of start(), "start_returned" back in main() before its
\* own finally, "exited" after main() has finished.
MaxSignals == 2

InitializeOutcomes == {"raises", "clients", "no_clients"}
TaskOutcomes == {"returns", "raises"}

\* start(), up to the call of initialize()
start(p) == [p EXCEPT !.running = TRUE, !.pc = "initialize"]

\* initialize() and the branch of start() on its result: a constructor that
\* raises makes initialize() return False and start() return at once; otherwise
\* the Kusto client exists, its connections are open when initialize_clients()
\* succeeded, and the three tasks are created and gathered.  A cancellation
\* requested before the first suspension is delivered to the gathered tasks.
initialize(p, outcome) ==
    IF outcome = "raises"
    THEN [p EXCEPT !.pc = "start_returned", !.start_exit = "initialization_failed"]
    ELSE [p EXCEPT !.kusto_client = TRUE,
                   !.connections = IF outcome = "clients" THEN "open" ELSE "none",
                   !.tasks = [t \in Tasks |->
                                 IF p.must_cancel THEN "cancelling" ELSE "running"],
                   !.pc = "gather"]

\* signal_handler: task.cancel() on every task of the loop, the main task included
signal_handler(p) ==
    [p EXCEPT !.tasks = [t \in Tasks |->
                            IF p.tasks[t] = "running" THEN "cancelling" ELSE p.tasks[t]],
              !.must_cancel = TRUE,
              !.signals = @ + 1]

\* close_connections(): query and ingest client closed when they exist
close_connections(connections) ==
    IF connections = "open" THEN "closed" ELSE connections

\* shutdown(); it has no suspension point, so it runs as one step.  It is
\* called from the finally block of start() and again from that of main().
shutdown(p) ==
    [p EXCEPT !.running = FALSE,
              !.connections = IF p.kusto_client THEN close_connections(@) ELSE @,
              !.shutdowns = @ + 1,
              !.pc = IF p.pc = "shutdown" THEN "start_returned" ELSE "exited"]

\* the result of `await asyncio.gather(*tasks)` in start(): CancelledError once
\* the main task was cancelled and every task has finished, the first exception
\* of a task, or normal completion; <<>> while it is still pending
gather(p) ==
    IF p.must_cancel
    THEN IF \A t \in Tasks : p.tasks[t] \notin {"running", "cancelling"}
         THEN Some("cancelled") ELSE None
    ELSE IF \E t \in Tasks : p.tasks[t] = "failed" THEN Some("task_error")
    ELSE IF \A t \in Tasks : p.tasks[t] = "done" THEN Some("completed")
    ELSE None

PlatformUnchanged ==
    UNCHANGED <<family, library, strict_names, consumer, bundle_file, arimaVars,
                xgbVars, ret, saved, nops, arg, result>>

InitPlatform ==
    /\ family = "none"
    /\ Idle
    /\ arg = [op |-> "start"]

StartPlatform ==
    /\ platform.pc = "created"
    /\ platform' = start(platform)
    /\ PlatformUnchanged

Initialize(outcome) ==
    /\ platform.pc = "initialize"
    /\ platform' = initialize(platform, outcome)
    /\ PlatformUnchanged

SignalHandler ==
    /\ platform.pc # "exited"
    /\ platform.signals < MaxSignals
    /\ platform' = signal_handler(platform)
    /\ PlatformUnchanged

TaskStep(t, outcome) ==
    /\ platform.pc # "exited"
    /\ \/ /\ platform.tasks[t] = "running"
          /\ platform' = [platform EXCEPT
                 !.tasks[t] = IF outcome = "raises" THEN "failed" ELSE "done"]
       \/ /\ platform.tasks[t] = "cancelling"
          /\ outcome = "raises"
          /\ platform' = [platform EXCEPT !.tasks[t] = "cancelled"]
    /\ PlatformUnchanged

GatherReturns ==
    /\ platform.pc = "gather"
    /\ gather(platform) # None
    /\ platform' = [platform EXCEPT !.pc = "shutdown",
                                    !.start_exit = gather(platform)[1],
                                    !.must_cancel = FALSE]
    /\ PlatformUnchanged

Shutdown ==
    /\ platform.pc \in {"shutdown", "start_returned"}
    /\ platform' = shutdown(platform)
    /\ PlatformUnchanged

NextPlatform ==
    \/ StartPlatform
    \/ \E outcome \in InitializeOutcomes : Initialize(outcome)
    \/ SignalHandler
    \/ \E t \in Tasks, outcome \in TaskOutcomes : TaskStep(t, outcome)
    \/ GatherReturns
    \/ Shutdown

SpecPlatform == InitPlatform /\ [][NextPlatform]_vars

\* ---- _assess_weather_severity -------------------------------------------------
\* Readings carry temperature, wind speed, precipitation and visibility in tenths
\* of their unit, as in _create_severe_weather_target; the thresholds are the
\* code's -10, 40, 0, 35, 25, 15, 10, 50, 20, 5, 1 and 5 in tenths.
SeverityTemperatureExtremeLow == -100
SeverityTemperatureExtremeHigh == 400
SeverityTemperatureLow == 0
SeverityTemperatureHigh == 350
WindExtreme == 250
WindStrong == 150
WindModerate == 100
PrecipitationHeavy == 500
PrecipitationModerate == 200
PrecipitationLight == 50
VisibilityVeryPoor == 10
VisibilityPoor == 50
severe_conditions == {"Thunderstorm", "Tornado", "Hurricane", "Blizzard", "Hail"}
ExtremeScore == 3
CriticalScore == 8
HighScore == 5
MediumScore == 2

severity_score(reading) ==
    LET temperature ==
            IF \/ reading.temperature < SeverityTemperatureExtremeLow
               \/ reading.temperature > SeverityTemperatureExtremeHigh
            THEN ExtremeScore
            ELSE IF \/ reading.temperature < SeverityTemperatureLow
                    \/ reading.temperature > SeverityTemperatureHigh
            THEN 2 ELSE 0
        wind ==
            IF reading.wind_speed > WindExtreme THEN ExtremeScore
            ELSE IF reading.wind_speed > WindStrong THEN 2
            ELSE IF reading.wind_speed > WindModerate THEN 1 ELSE 0
        precipitation ==
            IF reading.precipitation > PrecipitationHeavy THEN ExtremeScore
            ELSE IF reading.precipitation > PrecipitationModerate THEN 2
            ELSE IF reading.precipitation > PrecipitationLight THEN 1 ELSE 0
        visibility ==
            IF reading.visibility < VisibilityVeryPoor THEN ExtremeScore
            ELSE IF reading.visibility < VisibilityPoor THEN 2 ELSE 0
        condition ==
            IF reading.weather_condition \in severe_conditions THEN 4 ELSE 0
    IN  temperature + wind + precipitation + visibility + condition

assess_weather_severity(reading) ==
    LET score == severity_score(reading)
    IN  IF score >= CriticalScore THEN "critical"
        ELSE IF score >= HighScore THEN "high"
        ELSE IF score >= MediumScore THEN "medium"
        ELSE "low"

SeverityReadings ==
    [temperature : {0 - 101, 0 - 100, 0 - 51, 0 - 50, 0 - 1, 0, 200, 350, 351,
                    400, 401},
     wind_speed : {50, 100, 101, 150, 151, 200, 201, 250, 251},
     precipitation : {0, 51, 201, 501},
     visibility : {9, 10, 19, 20, 49, 50, 100},
     weather_condition : {"Clear", "Rain", "Thunderstorm", "Hail"}]

InitSeverity ==
    /\ family = "none"
    /\ Idle
    /\ arg \in [op : {"assess_weather_severity"}, reading : SeverityReadings]

AssessWeatherSeverity ==
    /\ arg.op = "assess_weather_severity"
    /\ result = None
    /\ result' = Some([severe_weather |-> create_severe_weather_target(arg.reading),
                       severity |-> assess_weather_severity(arg.reading)])
    /\ UNCHANGED <<envVars, bundle_file, arimaVars, xgbVars, ret, saved, nops, arg>>

SpecSeverity == InitSeverity /\ [][AssessWeatherSeverity]_vars

\* Properties
\* ===========================================================================

\* C1: a train_model call that returns False leaves models and model_params
\* exactly as they were before the call.
C1_FailedTrainChangesNothing ==
    [][(ret'.op = "train_model" /\ ~ret'.value)
          => (models' = models /\ model_params' = model_params)]_vars

\* C3: a prediction for a key without a trained model (predict,
\* predict_parameter, predict_severe_weather without a classifier) returns a
\* result with an error field, does not raise and changes nothing in the
\* registry.
C3_UntrainedPredictionIsAnError ==
    [][/\ (ret'.op = "predict" /\ ~HasModel(models, ret'.region, ret'.parameter))
            => /\ "error" \in DOMAIN ret'.value
               /\ ~ret'.raised
               /\ UNCHANGED <<bundle_file, arimaVars, xgbVars>>
       /\ (ret'.op = "predict_parameter"
           /\ ~HasModel(regression_models, ret'.region, ret'.parameter))
            => /\ "error" \in DOMAIN ret'.value
               /\ ~ret'.raised
               /\ UNCHANGED <<bundle_file, arimaVars, xgbVars>>
       /\ (ret'.op = "predict_severe_weather" /\ classification_model = None)
            => /\ "error" \in DOMAIN ret'.value
               /\ ~ret'.raised
               /\ UNCHANGED <<bundle_file, arimaVars, xgbVars>>]_vars

\* a region with one trained parameter was asked for the other one
C3_Witness ==
    /\ ret.op = "predict"
    /\ ret.region \in DOMAIN models
    /\ ret.parameter \notin DOMAIN models[ret.region]
    /\ "error" \in DOMAIN ret.value

\* C4: predict with steps = N >= 1 on a trained key returns N predictions and
\* N timestamps, the k-th timestamp being the stored last index plus 5*k
\* minutes, the first one later than the last reading seen in training.
C4_ForecastTimestamps ==
    (ret.op = "predict" /\ ret.steps # None
     /\ HasModel(models, ret.region, ret.parameter))
    => LET N == ret.steps[1]
           entry == models[ret.region][ret.parameter]
           d == ArimaDataById(entry.model.data)
           v == ret.value
       IN  /\ "error" \notin DOMAIN v
           /\ Len(v.predictions) = N
           /\ Len(v.timestamps) = N
           /\ \A k \in 1 .. N :
                  IsoMinutes(v.timestamps[k]) = entry.last_index + 5 * k
           /\ \A k \in 1 .. N - 1 :
                  IsoMinutes(v.timestamps[k + 1]) - IsoMinutes(v.timestamps[k]) = 5
           /\ IsoMinutes(v.timestamps[1]) > d.last_ts

\* two steps were forecast from a series whose last reading (minute 57) is
\* not on a 5-minute boundary
C4_Witness ==
    /\ ret.op = "predict"
    /\ ret.steps = Some(2)
    /\ HasModel(models, ret.region, ret.parameter)
    /\ ArimaDataById(models[ret.region][ret.parameter].model.data).last_ts % 5 # 0
    /\ Len(ret.value.timestamps) = 2

\* C2: once the ensemble model of key A is trained, a later training call for
\* another regression key or for the classifier, successful or not, does not
\* change what predict_parameter(A, features) returns for fixed features; nor
\* does a later regression training change what predict_severe_weather
\* returns.
C2_OtherTrainingKeepsPrediction ==
    [][/\ \A key \in Keys, features \in FeatureFrames :
            (/\ HasModel(regression_models, key[1], key[2])
             /\ \/ ret'.op = "train_classification_model"
                \/ /\ ret'.op = "train_regression_model"
                   /\ <<ret'.region, ret'.parameter>> # key)
            => predict_parameter(strict_names, regression_models', feature_columns',
                                 key[1], key[2], features)
               = predict_parameter(strict_names, regression_models, feature_columns,
                                   key[1], key[2], features)
       /\ \A features \in FeatureFrames :
            (classification_model # None /\ ret'.op = "train_regression_model")
            => predict_severe_weather(strict_names, classification_model',
                                      feature_columns', severe_weather_threshold',
                                      features)
               = predict_severe_weather(strict_names, classification_model,
                                        feature_columns, severe_weather_threshold,
                                        features)]_vars

\* C9: after save_models and load_models of the written file on a freshly
\* created instance, every prediction (fixed steps for ARIMA, fixed feature
\* frame for the ensemble and the classifier) equals that of the saved
\* instance.
C9_RoundTripPredictions ==
    (ret.op = "load_models" /\ ret.value /\ ret.fresh
     /\ saved.ok /\ bundle_file = saved.file)
    => IF family = "arima"
       THEN \A key \in Keys, n \in 1 .. MaxSteps :
                predict(models, prediction_horizon, key[1], key[2], Some(n))
                = predict(saved.inst.models, prediction_horizon, key[1], key[2],
                          Some(n))
       ELSE /\ \A key \in Keys, features \in FeatureFrames :
                   predict_parameter(strict_names, regression_models,
                                     feature_columns, key[1], key[2], features)
                   = predict_parameter(strict_names, saved.inst.regression_models,
                                       saved.inst.feature_columns, key[1], key[2],
                                       features)
            /\ \A features \in FeatureFrames :
                   predict_severe_weather(strict_names, classification_model,
                                          feature_columns, severe_weather_threshold,
                                          features)
                   = predict_severe_weather(strict_names,
                                            saved.inst.classification_model,
                                            saved.inst.feature_columns,
                                            saved.threshold, features)

\* C10: load_models either restores every part of the bundle and returns
\* True, or returns False and leaves the registry exactly as it was.
C10_LoadAllOrNothing ==
    [][ret'.op = "load_models"
          => IF ret'.value
             THEN IF family = "arima"
                  THEN /\ models' = Loads(bundle_file)["models"]
                       /\ model_params' = Loads(bundle_file)["model_params"]
                  ELSE /\ regression_models' = Loads(bundle_file)["regression_models"]
                       /\ classification_model'
                              = Loads(bundle_file)["classification_model"]
             ELSE UNCHANGED <<arimaVars, xgbVars>>]_vars

\* C5: for a series of at least 50 points auto_arima_params returns an order
\* of the grid [0,3]x[0,2]x[0,3] whose AIC is minimal among the orders of the
\* grid that can be fitted, the first such order in the iteration order p, d,
\* q; so its AIC is at most that of the default order when that one is in
\* the grid and can be fitted.
Earlier(x, o) ==
    \/ x[1] < o[1]
    \/ x[1] = o[1] /\ x[2] < o[2]
    \/ x[1] = o[1] /\ x[2] = o[2] /\ x[3] < o[3]

C5_SelectedOrderMinimisesAic ==
    (arg # None /\ arg.op = "auto_arima_params" /\ result # None
     /\ arg.d.bins >= 50)
    => LET o == result[1]
           Fits(x) == arg.lib /\ ~FitFails(arg.d, x)
       IN  /\ o \in (0 .. 3) \X (0 .. 2) \X (0 .. 3)
           /\ \A x \in Grid :
                  Fits(x) => /\ Fits(o)
                             /\ Aic(arg.d, o) <= Aic(arg.d, x)
                             /\ Earlier(x, o) => Aic(arg.d, x) > Aic(arg.d, o)
           /\ (DefaultOrder \in Grid /\ Fits(DefaultOrder))
                  => Aic(arg.d, o) <= Aic(arg.d, DefaultOrder)

\* the minimum is attained by a later order of the grid too, and the default
\* order is not the one selected
C5_Witness ==
    /\ arg # None /\ arg.op = "auto_arima_params" /\ result # None
    /\ arg.d.bins >= 50
    /\ result[1] # DefaultOrder
    /\ \E x \in Grid : /\ Earlier(result[1], x)
                       /\ arg.lib /\ ~FitFails(arg.d, x)
                       /\ Aic(arg.d, x) = Aic(arg.d, result[1])

\* C6: the label is 1 exactly when temperature < -5, temperature > 40,
\* wind_speed > 20, visibility < 2 or the condition is one of Thunderstorm,
\* Tornado, Hurricane, Blizzard, Hail; the comparisons are strict.
C6_SevereLabelRule ==
    (arg # None /\ arg.op = "severe_weather" /\ result # None
     /\ DOMAIN arg.row = ReadingColumns)
    => LET row == arg.row
           severe == \/ row.temperature < -50
                     \/ row.temperature > 400
                     \/ row.wind_speed > 200
                     \/ row.visibility < 20
                     \/ row.weather_condition
                            \in {"Thunderstorm", "Tornado", "Hurricane", "Blizzard",
                                 "Hail"}
       IN  result[1] = (IF severe THEN 1 ELSE 0)

\* a reading at all four boundary values in clear weather is labelled 0
C6_Witness ==
    /\ arg # None /\ arg.op = "severe_weather" /\ result = Some(0)
    /\ DOMAIN arg.row = ReadingColumns
    /\ arg.row.temperature \in {-50, 400}
    /\ arg.row.wind_speed = 200
    /\ arg.row.visibility = 20

\* C8: after a successful train_classification_model the stored
\* scale_pos_weight is (label-0 rows) / (label-1 rows) of the training split
\* that was fitted, which holds 80% of the rows, and it is the value the
\* classifier was given.
C8_ScalePosWeightOfTrainingSplit ==
    (ret.op = "train_classification_model" /\ ret.value)
    => LET entry == classification_model[1]
           y_train == entry.model.fitted_labels
       IN  /\ entry.scale_pos_weight = Divide(y_train[1], y_train[2])
           /\ entry.model.scale_pos_weight = entry.scale_pos_weight
           /\ y_train[1] + y_train[2] = entry.training_samples
           /\ 5 * entry.training_samples <= 4 * arg.d.rows
           /\ 5 * (entry.training_samples + 1) > 4 * arg.d.rows

\* the ratio of the training split is not the ratio of the whole frame
C8_Witness ==
    /\ ret.op = "train_classification_model" /\ ret.value
    /\ classification_model[1].scale_pos_weight
           # Divide(arg.d.rows - arg.d.pos, arg.d.pos)

\* C7: in create_features every lag, rolling mean/std, pressure_change and
\* pressure_change_rate value of a row is computed from the rows of its own
\* region in timestamp order: changing a raw value of a row of another region
\* leaves the features of the rows of this region unchanged, and every
\* returned row carries its own raw values and the lag taken from the
\* previous row of its region.
C7_FeaturesStayWithinRegion ==
    [][(arg.op = "create_features" /\ result # None /\ arg'.edited /\ ~arg.edited)
          => LET before == result[1]
                 after == result'[1]
                 changed == {i \in 1 .. Len(arg.frame) : arg'.frame[i] # arg.frame[i]}
                 Row(df, label) == CHOOSE k \in 1 .. Len(df) : df[k].index = label
             IN  /\ \A label \in 1 .. Len(arg.frame) :
                        (\A i \in changed : arg.frame[i].region # arg.frame[label].region)
                        => after[Row(after, label)].features
                           = before[Row(before, label)].features
                 /\ \A k \in 1 .. Len(after) :
                        /\ after[k].raw = arg'.frame[after[k].index]
                        /\ after[k].features.pressure_lag[1]
                           = IF k > 1 /\ after[k - 1].raw.region = after[k].raw.region
                             THEN <<after[k - 1].raw.pressure>>
                             ELSE <<>>]_vars

\* a row of the south was edited in a frame given out of order whose north
\* rows reach a pressure_change_rate
C7_Witness ==
    /\ arg # None /\ arg.op = "create_features" /\ arg.edited /\ result # None
    /\ \E k \in 1 .. Len(result[1]) :
           /\ result[1][k].raw.region = "north"
           /\ result[1][k].features.pressure_change_rate # None
    /\ \E i \in 1 .. Len(arg.frame) :
           /\ arg.frame[i].region = "south"
           /\ arg.frame[i].pressure # 1000 + i * i
    /\ \E k \in 1 .. Len(result[1]) - 1 : result[1][k].index > result[1][k + 1].index

\* C14: every record ingest_weather_data hands to the store has a
\* severity_score in [0,1] and an alert_level that is the threshold function
\* of that score (critical from 0.8, high from 0.6, medium from 0.3, else
\* low), also when the record arrived with one of the two fields set.
C14_StoredSeverityAndLevel ==
    (arg # None /\ arg.op = "ingest_weather_data" /\ result # None)
    => \A i \in 1 .. Len(result[1].ingested) :
           LET record == result[1].ingested[i]
               score == record["severity_score"]
               InUnit == /\ score[1] > 0 \/ (score[1] = 0 /\ score[2] >= 0)
                         /\ score[1] < 10 \/ (score[1] = 10 /\ score[2] <= 0)
               level == IF score[1] > 8 \/ (score[1] = 8 /\ score[2] >= 0)
                        THEN "critical"
                        ELSE IF score[1] > 6 \/ (score[1] = 6 /\ score[2] >= 0)
                        THEN "high"
                        ELSE IF score[1] > 3 \/ (score[1] = 3 /\ score[2] >= 0)
                        THEN "medium"
                        ELSE "low"
           IN  InUnit /\ record["alert_level"] = level

\* C11: train_regression_model for a region with fewer than 100 rows returns
\* False and leaves regression_models, classification_model and
\* feature_columns as they were before the call.
C11_ShortRegressionFrameChangesNothing ==
    [][(arg'.op = "train_regression_model" /\ arg'.d.rows < 100)
          => /\ ret'.value = FALSE
             /\ regression_models' = regression_models
             /\ classification_model' = classification_model
             /\ feature_columns' = feature_columns]_vars

\* the call with 99 rows came after a training that had set feature_columns
\* and installed a model
C11_Witness ==
    /\ arg.op = "train_regression_model"
    /\ arg.d.rows = 99
    /\ library
    /\ regression_models # EmptyDict
    /\ feature_columns # <<>>
    /\ ret.value = FALSE

\* C12: train_classification_model with fewer than 100 rows returns False and
\* leaves classification_model and feature_columns unchanged, so that
\* predict_severe_weather on fixed features returns the same before and after
\* the failed call.
C12_ShortClassifierFrameChangesNothing ==
    [][(arg'.op = "train_classification_model" /\ arg'.d.rows < 100
        /\ classification_model # None)
          => /\ ret'.value = FALSE
             /\ classification_model' = classification_model
             /\ feature_columns' = feature_columns
             /\ \A features \in FeatureFrames :
                    predict_severe_weather(strict_names, classification_model',
                                           feature_columns',
                                           severe_weather_threshold', features)
                    = predict_severe_weather(strict_names, classification_model,
                                             feature_columns,
                                             severe_weather_threshold, features)]_vars

\* C13: train_model for a region with fewer than 50 readings still fits a
\* model with the configured default order, installs it under the key and
\* returns True.
C13_ShortSeriesTrainsWithDefaultOrder ==
    (arg.op = "train_model" /\ arg.d.rows < 50 /\ library /\ arg.d.hascol
     /\ ~FitFails(arg.d, DefaultOrder))
    => /\ ret.value = TRUE
       /\ HasModel(models, ret.region, ret.parameter)
       /\ models[ret.region][ret.parameter].params = DefaultOrder

\* C15: when the numerical library of a component failed to import, every
\* call on it (train_model, predict, batch_predict_all_regions,
\* create_features, train_regression_model, train_classification_model,
\* predict_parameter, predict_severe_weather) returns False or a result with
\* an error field, and none raises.
C15_MissingLibraryFailsExplicitly ==
    ~library
    => /\ ret.op \in {"train_model", "train_regression_model",
                      "train_classification_model"}
            => ret.value = FALSE
       /\ ret.op \in {"predict", "batch_predict_all_regions", "predict_parameter",
                      "predict_severe_weather"}
            => ~ret.raised /\ "error" \in DOMAIN ret.value
       /\ ret.op = "create_features"
            => ~ret.raised /\ ret.value # "DataFrame"

\* C16: batch_predict_all_regions returns one entry per region of the
\* registry and under it one prediction for every requested parameter that
\* has a trained model and none for the others; without a parameter list the
\* requested parameters are temperature, humidity, pressure, wind_speed and
\* visibility.
C16_BatchCoversRequestedParameters ==
    ret.op = "batch_predict_all_regions"
    => LET requested ==
               IF arg.parameters = None
               THEN {"temperature", "humidity", "pressure", "wind_speed", "visibility"}
               ELSE {arg.parameters[1][i] : i \in 1 .. Len(arg.parameters[1])}
       IN  /\ DOMAIN ret.value = DOMAIN models
           /\ \A region \in DOMAIN models :
                  /\ DOMAIN ret.value[region] = requested \cap DOMAIN models[region]
                  /\ \A parameter \in DOMAIN ret.value[region] :
                         ret.value[region][parameter]
                         = predict(models, prediction_horizon, region, parameter, None)

\* C17: after every successful training call (train_model,
\* train_regression_model, train_classification_model) the registry's
\* last_training_time is set to a time not earlier than the start of the call.
C17_TrainingStampsLastTrainingTime ==
    [][(ret'.op \in {"train_model", "train_regression_model",
                     "train_classification_model"}
        /\ ret'.value = TRUE /\ nops' = nops + 1)
          => LET stamp == IF family = "arima" THEN last_training_time'
                          ELSE xgb_last_training_time'
             IN  stamp # None /\ IsoMinutes(stamp) >= nops]_vars

\* C18: under training, prediction, batch prediction, evaluation and save
\* calls a key that has a trained model keeps one, also when a later retrain
\* of the key fails: its prediction is never the model-not-found result
\* again, and a classifier once installed stays installed.
C18_TrainedKeysStayTrained ==
    [][/\ \A key \in AskedKeys :
              /\ HasModel(models, key[1], key[2])
                    => /\ HasModel(models', key[1], key[2])
                       /\ predict(models', prediction_horizon', key[1], key[2], None)
                          # NotFound
              /\ HasModel(regression_models, key[1], key[2])
                    => HasModel(regression_models', key[1], key[2])
       /\ classification_model # None => classification_model' # None]_vars

\* a retrain of a trained key failed and its entry is still there
C18_Witness ==
    /\ arg.op = "train_model"
    /\ ret.value = FALSE
    /\ arg.d.rows >= 50
    /\ HasModel(models, ret.region, ret.parameter)
    /\ \E key \in AskedKeys :
           key # <<ret.region, ret.parameter>> /\ HasModel(models, key[1], key[2])

\* C20: in every successful ARIMA prediction lower, upper and predictions
\* have the same length and lower[k] <= predictions[k] <= upper[k] at every
\* step k.
C20_IntervalBracketsForecast ==
    (ret.op = "predict" /\ "error" \notin DOMAIN ret.value)
    => LET v == ret.value IN
       /\ Len(v.confidence_intervals.lower) = Len(v.predictions)
       /\ Len(v.confidence_intervals.upper) = Len(v.predictions)
       /\ \A k \in 1 .. Len(v.predictions) :
              /\ v.confidence_intervals.lower[k] <= v.predictions[k]
              /\ v.predictions[k] <= v.confidence_intervals.upper[k]

\* a forecast of several steps was returned
C20_Witness ==
    /\ ret.op = "predict"
    /\ "error" \notin DOMAIN ret.value
    /\ Len(ret.value.predictions) = MaxSteps
    /\ Len(ret.value.confidence_intervals.lower) = MaxSteps

\* C19: a reader interleaved at any point of a training call for a key, also
\* of a call that is abandoned, finds under the key either the whole entry it
\* had when the call began or the whole entry of the new fit; it finds the new
\* one only when the fit and its evaluation have finished successfully.
C19_ReaderSeesWholeEntry ==
    ret.op = "read"
    => /\ ret.seen \in {ret.previous, Some(NewEntry(ret.call))}
       /\ ret.seen # ret.previous => ret.call.fitted

\* a retrain was abandoned after its fit and before its store, and the reader
\* finds the previous entry
C19_Witness ==
    /\ ret.op = "read"
    /\ ret.call.pc = "abandoned"
    /\ ret.call.fitted
    /\ ret.previous # None
    /\ ret.previous # Some(NewEntry(ret.call))
    /\ ret.seen = ret.previous

\* C21: the split of train_regression_model takes the first 80% of the
\* region's rows for training and the remaining 20% for testing, no row is in
\* both, every training row is no later in time than every test row whatever
\* the input frame, and the scaler is fitted on the training rows only.
C21_SplitIsChronological ==
    result # None
    => LET r == result[1]
           rows == RegionData(arg.frame, r.region)
           Labels(seq) == {seq[i] : i \in 1 .. Len(seq)}
       IN  /\ r.train \o r.test = rows
           /\ Len(r.test) = TestSize(Len(rows))
           /\ Labels(r.train) \cap Labels(r.test) = {}
           /\ Labels(r.fitted_on) = Labels(r.train)
           /\ \A i \in Labels(r.train), j \in Labels(r.test) :
                  arg.frame[i].timestamp <= arg.frame[j].timestamp

\* C23: in evaluate_model, when the number of predicted values differs from
\* the number of actual values, both are cut to the shorter length and the
\* metrics are computed over that common prefix; the call returns no error
\* result because of the difference.
C23_LengthMismatchIsTruncated ==
    (arg.op = "evaluate_model" /\ arg.test.hascol)
    => LET predicted == predict(models, prediction_horizon, ret.region,
                                ret.parameter, Some(Len(arg.test.actual))).predictions
           actual == arg.test.actual
           n == Min2(Len(predicted), Len(actual))
       IN  Len(predicted) # Len(actual)
           => /\ "error" \notin DOMAIN ret.value
              /\ ret.value.mae = [k \in 1 .. n |-> actual[k] - predicted[k]]
              /\ ret.value.baseline_mae = [k \in 1 .. n |-> actual[k] - actual[1]]

\* C22: in the predict calls a missing feature value is replaced by the
\* median the feature had in the training frame, whatever the other rows of
\* the frame being predicted are.
C22_MissingValuesGetTrainingMedian ==
    (result # None /\ arg.op = "fillna")
    => (result[1].stage = "predicted"
        => \A k \in 1 .. Len(arg.features) :
               arg.features[k] = None => result[1].X[k] = Median(arg.training))

\* C24: while the ingest client is initialised, the ingest_weather_data call
\* that weather_callback makes for a reading returns True and hands the store
\* the reading as a record with ingestion_time, severity_score and
\* alert_level attached.
C24_CallbackIngestsReading ==
    (arg.op = "weather_callback" /\ result # None
     /\ arg.ingest_client /\ ~arg.stream_fails)
    => /\ result[1].value = TRUE
       /\ Len(result[1].ingested) = 1
       /\ LET record == result[1].ingested[1] IN
          /\ DOMAIN record = DOMAIN arg.weather_reading
                             \cup {"ingestion_time", "severity_score", "alert_level"}
          /\ \A f \in DOMAIN arg.weather_reading : record[f] = arg.weather_reading[f]

\* C25: in the Event Hub consumer every delivered event is counted exactly
\* once: events_processed + events_failed is the number of events delivered,
\* and no event increments both counters, also when the handler or the
\* checkpoint update raises.
C25_EveryEventCountedOnce ==
    arg.op = "process_events"
    => /\ consumer.events_processed + consumer.events_failed = nops
       /\ ret.op = "process_events"
            => ~(/\ consumer.events_processed > ret.before.events_processed
                 /\ consumer.events_failed > ret.before.events_failed)

\* C26: for every partition, whatever the interleaving of deliveries, the
\* number of its processed events later than its last checkpoint never
\* exceeds 10 (as long as no checkpoint update has raised).
C26_CheckpointEveryTenPerPartition ==
    (arg.op = "process_events" /\ consumer.checkpoint_errors = 0)
    => \A p \in Partitions : consumer.unchecked[p] <= 10

\* C27: send_weather_readings hands _send_batch consecutive batches of at
\* most batch_size readings in the original order, stops at the first batch
\* that fails and returns False, returns True exactly when every batch was
\* sent, and on True every reading is in exactly one Event Hub batch that
\* was sent.
C27_BatchesInOrderAllOrStop ==
    (arg.op = "send_weather_readings" /\ result # None)
    => LET r == result[1]
           readings == arg.weather_readings
           n == Len(readings)
           size == arg.batch_size
           count == (n + size - 1) \div size
           Holds(reading) ==
               {<<j, k>> \in (1 .. Len(r.sent)) \X (1 .. arg.capacity) :
                    k <= Len(r.sent[j]) /\ r.sent[j][k] = reading}
       IN  /\ Len(r.attempted) <= count
           /\ \A b \in 1 .. Len(r.attempted) :
                  r.attempted[b]
                  = SubSeq(readings, (b - 1) * size + 1, Min2(b * size, n))
           /\ r.value = TRUE
                <=> /\ arg.producer_client
                    /\ Len(r.attempted) = count
                    /\ \A j \in 1 .. Len(r.sent) : Len(r.sent[j]) > 0
                    /\ \A reading \in 1 .. n : Holds(reading) # {}
           /\ (arg.producer_client /\ r.value = FALSE)
                => /\ Len(r.attempted) >= 1
                   /\ \A reading \in 1 .. n :
                          /\ Holds(reading) # {}
                                => reading <= Len(r.attempted) * size
                          /\ reading <= (Len(r.attempted) - 1) * size
                                => Holds(reading) # {}
           /\ r.value = TRUE
                => \A reading \in 1 .. n : Cardinality(Holds(reading)) = 1

\* several batches were sent, one of them as more than one Event Hub batch
C27_Witness ==
    /\ arg.op = "send_weather_readings"
    /\ result # None
    /\ result[1].value = TRUE
    /\ Len(result[1].attempted) >= 2
    /\ Len(result[1].sent) > Len(result[1].attempted)

\* C28: run_health_checks reports the Kusto component unhealthy and the
\* platform degraded whenever the platform's Kusto client cannot query the
\* store (query client not initialised, connection closed, or the query
\* fails), and reports Kusto healthy only if the connectivity query succeeded.
C28_HealthReflectsKustoQuery ==
    (arg.op = "run_health_checks" /\ result # None /\ arg.kusto_client)
    => LET h == result[1]
           queried == arg.query_client = "open" /\ ~arg.query_fails
       IN  /\ ~queried
                => /\ "kusto" \in DOMAIN h.components
                   /\ h.components["kusto"].status = "unhealthy"
                   /\ h.platform_status = "degraded"
           /\ ("kusto" \in DOMAIN h.components
               /\ h.components["kusto"].status = "healthy") => queried

\* C29: whenever start() has returned, by whichever path, shutdown has run:
\* running is False and the Kusto connections are not open.
C29_StartReturnsAfterShutdown ==
    platform.pc = "start_returned"
    => /\ platform.shutdowns >= 1
       /\ ~platform.running
       /\ platform.connections # "open"

\* C30: a reading that the training label rule calls severe (severe_weather = 1)
\* is never rated low by the producer's severity assessment.
C30_SevereLabelNeverLow ==
    (arg.op = "assess_weather_severity" /\ result # None
     /\ result[1].severe_weather = 1)
    => result[1].severity \in {"medium", "high", "critical"}

\* a reading severe by the label rule that the producer rates just medium
C30_Witness ==
    /\ arg.op = "assess_weather_severity"
    /\ result # None
    /\ result[1].severe_weather = 1
    /\ result[1].severity = "medium"

====
